---- MODULE Spec2Model ----
(***************************************************************************)
(* A model of Spotify-PlayMatch: the catalog pagination client             *)
(* (spotify_service.py), the language-model reply normalisation and the    *)
(* model selection with its fallback model (gemini_service.py), the chart  *)
(* input normalisation (visualization.py) and the page with its URL        *)
(* checks and button handlers (app.py).                                    *)
(*                                                                         *)
(* The parts are independent routines.  Each has its own group of          *)
(* variables and its own specification (SpecFetch, SpecLLM, SpecViz,       *)
(* SpecSetup, SpecApp, SpecUrl); the variables of the other groups stay    *)
(* at their idle values.  SpecRun is the page again with the analyze       *)
(* handler taken call by call.                                             *)
(***************************************************************************)
EXTENDS Integers, Sequences, FiniteSets, TLC

VARIABLES
    \* ---- get_playlist_tracks (spotify_service.py) ----
    fPc,              \* "idle" | "start" | "loop" | "done" | "raised"
    pageSizes,        \* the catalog: number of items of each page it serves
    pattern,          \* the catalog: which items the playlist holds
    offset,           \* the local `offset`
    all_tracks_data,  \* the local `all_tracks_data`
    n429,             \* history: number of 429 answers received
    reqLog,           \* history: [offset, status] of every request made; status
                      \* is "page", "nobody", "429", another HTTP status or
                      \* "exception"
    servedCount,      \* history: number of items delivered in responses
    lastSleep,        \* history: milliseconds of the last time.sleep
    \* ---- analyze_playlist / get_song_recommendations (gemini_service.py) ----
    lPc,              \* "idle" | "start" | "attempt" | "done" | "raised"
    llmFn,            \* "analyze" | "recommend": the function that runs
    tracksIn,         \* analyze_playlist's argument: the number of tracks
    analysisIn,       \* get_song_recommendations' argument
    prompt,           \* the local `prompt`
    attempt,          \* the loop variable `attempt`
    calls,            \* history: number of generate_content calls made
    failures,         \* history: number of attempts that failed
    sawDecodeError,   \* history: some reply raised JSONDecodeError
    lastPrompt,       \* history: the prompt of the last generate_content call
    lastReply,        \* history: response.text of the last call
    lastOutcome,      \* history: how the last attempt ended
    lastWait,         \* history: the last backoff sleep, [base, jitterMs]
    result,           \* the value returned
    resultKind,       \* "none" | "parsed" | "fallback"
    \* ---- create_bpm_chart / create_instruments_chart (visualization.py) ----
    vPc,              \* "idle" | "start" | "done"
    vizFn,            \* "bpm" | "instruments" | "keys": the function that runs
    vizIn,            \* its argument
    vizOut,           \* the figure returned
    \* ---- setup_gemini and FallbackModel (gemini_service.py) ----
    sPc,              \* "idle" | "call" | "held" | "raised"
    sEnv,             \* the API key, the model listing, the accepting models
    sModel,           \* the local `model` of the caller
    sProbes,          \* history: the models probed by the last setup_gemini
    sSetups,          \* history: number of setup_gemini calls
    sPrev,            \* history: the generate_content call before the last
    sLast,            \* history: the last generate_content call
    \* ---- main (app.py) ----
    aPc,              \* "idle" | "ready" | "url" | "resolved", or the call
                      \* the handler waits in: "in_details" | "in_tracks" |
                      \* "in_analyze" | "in_recommend"
    playlist_url,     \* the text of the URL input
    playlist_data,    \* st.session_state.playlist_data
    playlist_details, \* st.session_state.playlist_details
    playlist_analysis, \* st.session_state.playlist_analysis
    recommendations,  \* st.session_state.recommendations
    processing_error, \* st.session_state.processing_error
    clear_url_input,  \* st.session_state.clear_url_input
    aRun,             \* history: number of analyses started
    aEvent,           \* history: the last button handled
    aShown,           \* history: the messages its handler showed
    aLog,             \* history: the service functions its handler called
    aValid,           \* history: what validate_spotify_url returned
    aId               \* history: what get_playlist_id_from_url returned

fetchVars == <<fPc, pageSizes, pattern, offset, all_tracks_data, n429,
               reqLog, servedCount, lastSleep>>

llmVars == <<lPc, llmFn, tracksIn, analysisIn, prompt, attempt, calls,
             failures, sawDecodeError, lastPrompt, lastReply, lastOutcome,
             lastWait, result, resultKind>>

vizVars == <<vPc, vizFn, vizIn, vizOut>>

setupVars == <<sPc, sEnv, sModel, sProbes, sSetups, sPrev, sLast>>

appVars == <<aPc, playlist_url, playlist_data, playlist_details,
             playlist_analysis, recommendations, processing_error,
             clear_url_input, aRun, aEvent, aShown, aLog, aValid, aId>>

vars == <<fetchVars, llmVars, vizVars, setupVars, appVars>>

(***************************************************************************)
(* Generic helpers                                                         *)
(***************************************************************************)
Max2(a, b) == IF a >= b THEN a ELSE b

RECURSIVE SumSeq(_)
SumSeq(s) == IF s = <<>> THEN 0 ELSE Head(s) + SumSeq(Tail(s))

\* All sequences over S of length lo..hi
SeqsOf(S, lo, hi) == UNION {[1..n -> S] : n \in lo..hi}

(***************************************************************************)
(* Text and JSON values (gemini_service.py)                                *)
(*                                                                         *)
(* A text is a sequence of tokens.  The punctuation the code looks at is   *)
(* one token each: { } [ ] , : the two quotes, the minus sign, the code     *)
(* fence (three backticks), a space, a                                     *)
(* newline and the decimal digits; any other token is a word (a run of     *)
(* other characters).  The tagged fence is the fence token followed by     *)
(* the word json.                                                          *)
(***************************************************************************)
DQ == "\""
SQ == "'"
\* The code fence: three backticks.
FENCE == "<fence>"
Whitespace == {" ", "\n"}
Digits == {"0", "1", "2", "3", "4", "5", "6", "7", "8", "9"}
DigitVal == [c \in Digits |->
               CASE c = "0" -> 0 [] c = "1" -> 1 [] c = "2" -> 2
                 [] c = "3" -> 3 [] c = "4" -> 4 [] c = "5" -> 5
                 [] c = "6" -> 6 [] c = "7" -> 7 [] c = "8" -> 8
                 [] OTHER -> 9]

SetMin(S) == CHOOSE x \in S : \A y \in S : x <= y
SetMax(S) == CHOOSE x \in S : \A y \in S : x >= y

\* A parsed JSON value, as json.loads builds it: a tag and the payload.
\*   null, bool (True/False), num (int), str (the tokens between the
\*   quotes), arr (list), obj (dict: a function from key tokens to values).
JNull == [t |-> "null", v |-> 0]
JBool(b) == [t |-> "bool", v |-> b]
JNum(n) == [t |-> "num", v |-> n]
JStr(toks) == [t |-> "str", v |-> toks]
JArr(seq) == [t |-> "arr", v |-> seq]
JObj(f) == [t |-> "obj", v |-> f]
EmptyMap == [k \in {} |-> JNull]
\* The str value holding one word, and the dict key of one word.
S(w) == JStr(<<w>>)
K(w) == <<w>>

IsObj(x) == x.t = "obj"
IsArr(x) == x.t = "arr"
IsStr(x) == x.t = "str"
IsNum(x) == x.t = "num"
IsNull(x) == x.t = "null"

\* dict.__contains__, dict.get(key, default) and d[key] = value.
HasKey(o, w) == K(w) \in DOMAIN o.v
Get(o, w, default) == IF HasKey(o, w) THEN o.v[K(w)] ELSE default
SetKey(o, w, val) ==
    JObj([k \in (DOMAIN o.v) \cup {K(w)} |->
             IF k = K(w) THEN val ELSE o.v[k]])

\* str.strip(): without the leading and trailing whitespace.
Strip(s) ==
    LET keep == {i \in 1..Len(s) : s[i] \notin Whitespace}
    IN  IF keep = {} THEN <<>> ELSE SubSeq(s, SetMin(keep), SetMax(keep))

StartsWith(s, tok) == Len(s) >= 1 /\ s[1] = tok
EndsWith(s, tok) == Len(s) >= 1 /\ s[Len(s)] = tok

\* Positions where the fence, and where the fence tagged json, begins.
FencePositions(s) == {i \in 1..Len(s) : s[i] = FENCE}
JsonFencePositions(s) ==
    {i \in 1..(Len(s) - 1) : s[i] = FENCE /\ s[i + 1] = "json"}

\* text.split(fence + json)[1].split(fence)[0]
AfterJsonFence(s) ==
    LET a == SetMin(JsonFencePositions(s))
        rest == SubSeq(s, a + 2, Len(s))
        ends == FencePositions(rest)
    IN  IF ends = {} THEN rest ELSE SubSeq(rest, 1, SetMin(ends) - 1)

\* text.split(fence)[1].split(fence)[0]
AfterFence(s) ==
    LET a == SetMin(FencePositions(s))
        rest == SubSeq(s, a + 1, Len(s))
        ends == FencePositions(rest)
    IN  IF ends = {} THEN rest ELSE SubSeq(rest, 1, SetMin(ends) - 1)

\* text.replace(single quote, double quote)
ReplaceQuotes(s) == [i \in 1..Len(s) |-> IF s[i] = SQ THEN DQ ELSE s[i]]

\* text.replace(close-open braces, the same with a comma between)
RECURSIVE InsertCommas(_)
InsertCommas(s) ==
    LET hits == {i \in 1..(Len(s) - 1) : s[i] = "}" /\ s[i + 1] = "{"}
    IN  IF hits = {} THEN s
        ELSE LET i == SetMin(hits)
             IN  SubSeq(s, 1, i) \o <<",">> \o
                 InsertCommas(SubSeq(s, i + 1, Len(s)))

(***************************************************************************)
(* json.loads                                                              *)
(***************************************************************************)
ParseFail == [ok |-> FALSE, val |-> JNull, pos |-> 0]
ParseOk(val, pos) == [ok |-> TRUE, val |-> val, pos |-> pos]

\* The first position from i on that holds no whitespace (Len(s)+1: none).
SkipWs(s, i) ==
    SetMin({j \in i..(Len(s) + 1) : j > Len(s) \/ s[j] \notin Whitespace})

\* A string literal opening at the quote s[i]: up to the next quote.
ParseString(s, i) ==
    LET closes == {j \in (i + 1)..Len(s) : s[j] = DQ}
    IN  IF closes = {} THEN ParseFail
        ELSE ParseOk(JStr(SubSeq(s, i + 1, SetMin(closes) - 1)),
                     SetMin(closes) + 1)

\* The value of a run of digits.
RECURSIVE DigitsValue(_)
DigitsValue(ds) ==
    IF ds = <<>> THEN 0
    ELSE DigitsValue(SubSeq(ds, 1, Len(ds) - 1)) * 10 + DigitVal[ds[Len(ds)]]

\* An integer literal at s[i]: -?(0|[1-9][0-9]*)
ParseNumber(s, i) ==
    LET neg == s[i] = "-"
        d == IF neg THEN i + 1 ELSE i
    IN  IF d > Len(s) \/ s[d] \notin Digits THEN ParseFail
        ELSE LET stop == IF s[d] = "0" THEN d + 1
                         ELSE SetMin({j \in d..(Len(s) + 1) :
                                        j > Len(s) \/ s[j] \notin Digits})
                 n == DigitsValue(SubSeq(s, d, stop - 1))
             IN  ParseOk(JNum(IF neg THEN 0 - n ELSE n), stop)

RECURSIVE ParseValue(_, _), ParseMembers(_, _, _), ParseElements(_, _, _)

\* The members of an object from position i (a key is expected there).
ParseMembers(s, i0, acc) ==
    LET i == SkipWs(s, i0)
    IN  IF i > Len(s) \/ s[i] # DQ THEN ParseFail
        ELSE LET key == ParseString(s, i)
             IN  IF ~key.ok THEN ParseFail
                 ELSE LET c == SkipWs(s, key.pos)
                      IN  IF c > Len(s) \/ s[c] # ":" THEN ParseFail
                          ELSE LET val == ParseValue(s, c + 1)
                               IN  IF ~val.ok THEN ParseFail
                                   ELSE LET e == SkipWs(s, val.pos)
                                            next == JObj([k \in (DOMAIN acc.v) \cup {key.val.v} |->
                                                            IF k = key.val.v THEN val.val ELSE acc.v[k]])
                                        IN  IF e > Len(s) THEN ParseFail
                                            ELSE IF s[e] = "}" THEN ParseOk(next, e + 1)
                                            ELSE IF s[e] = "," THEN ParseMembers(s, e + 1, next)
                                            ELSE ParseFail

\* The elements of an array from position i (a value is expected there).
ParseElements(s, i, acc) ==
    LET val == ParseValue(s, i)
    IN  IF ~val.ok THEN ParseFail
        ELSE LET e == SkipWs(s, val.pos)
                 next == Append(acc, val.val)
             IN  IF e > Len(s) THEN ParseFail
                 ELSE IF s[e] = "]" THEN ParseOk(JArr(next), e + 1)
                 ELSE IF s[e] = "," THEN ParseElements(s, e + 1, next)
                 ELSE ParseFail

\* One JSON value from position i0, after optional whitespace.
ParseValue(s, i0) ==
    LET i == SkipWs(s, i0)
    IN  IF i > Len(s) THEN ParseFail
        ELSE CASE s[i] = "{" ->
                    LET j == SkipWs(s, i + 1)
                    IN  IF j <= Len(s) /\ s[j] = "}"
                        THEN ParseOk(JObj(EmptyMap), j + 1)
                        ELSE ParseMembers(s, j, JObj(EmptyMap))
               [] s[i] = "[" ->
                    LET j == SkipWs(s, i + 1)
                    IN  IF j <= Len(s) /\ s[j] = "]"
                        THEN ParseOk(JArr(<<>>), j + 1)
                        ELSE ParseElements(s, j, <<>>)
               [] s[i] = DQ -> ParseString(s, i)
               [] s[i] = "-" \/ s[i] \in Digits -> ParseNumber(s, i)
               [] s[i] = "true" -> ParseOk(JBool(TRUE), i + 1)
               [] s[i] = "false" -> ParseOk(JBool(FALSE), i + 1)
               [] s[i] = "null" -> ParseOk(JNull, i + 1)
               [] OTHER -> ParseFail

\* json.loads(text): the value, or ok = FALSE for JSONDecodeError.
JsonLoads(s) ==
    LET r == ParseValue(s, 1)
    IN  IF r.ok /\ SkipWs(s, r.pos) = Len(s) + 1 THEN r ELSE ParseFail

(***************************************************************************)
(* Language-model client: analyze_playlist and get_song_recommendations    *)
(***************************************************************************)
MaxRetries == 5
SampleSize == 20
DefaultBpmMin == 80
DefaultBpmCommon == 120
DefaultBpmMax == 160

\* random.uniform(0, 1) in milliseconds: the ends of the interval.
JitterMs == {0, 999}
NoWait == [base |-> -1, jitterMs |-> 0]
NoPrompt == [fn |-> "none", body |-> <<>>]

\* str.lower() of a word: the words of the model that hold capitals.
LowerWord(w) ==
    CASE w \in {"Indian", "INDIAN"} -> "indian"
      [] w = "Bollywood" -> "bollywood"
      [] w = "Hindi" -> "hindi"
      [] w = "Electronic" -> "electronic"
      [] w = "Dance" -> "dance"
      [] w = "Sitar" -> "sitar"
      [] w = "Tabla" -> "tabla"
      [] w = "Synthesizer" -> "synthesizer"
      [] w = "Synth" -> "synth"
      [] w \in {"High", "HIGH"} -> "high"
      [] w \in {"Medium", "MEDIUM"} -> "medium"
      [] w \in {"Low", "LOW"} -> "low"
      [] OTHER -> w
Lower(toks) == [i \in 1..Len(toks) |-> LowerWord(toks[i])]

\* word in text (substring test): the words of the model contain one
\* another only when they are equal.
Mentions(toks, word) == \E i \in 1..Len(toks) : toks[i] = word

\* A dict literal: the keys and values of a sequence of <<key, value>>.
ObjOf(pairs) ==
    JObj([k \in {K(pairs[i][1]) : i \in 1..Len(pairs)} |->
            pairs[SetMax({i \in 1..Len(pairs) : K(pairs[i][1]) = k})][2]])

\* ---- the text steps before json.loads ----

\* Mutant: any fence is looked for first, so a json tag stays in the text.
ExtractFencedAnyFirst(t) ==
    IF FencePositions(t) # {} THEN Strip(AfterFence(t))
    ELSE t

\* The content of the first code fence (lines 408-413, 574-579); the
\* fence tagged json is looked for first.
ExtractFenced(t) ==
    IF JsonFencePositions(t) # {} THEN Strip(AfterJsonFence(t))
    ELSE IF FencePositions(t) # {} THEN Strip(AfterFence(t))
    ELSE t

\* Lines 403-413, 569-579: the reply stripped, and the content of its
\* code fence when it does not start and end with the expected brackets.
ExtractedText(reply, open, close) ==
    LET t0 == Strip(reply)
    IN  IF StartsWith(t0, open) /\ EndsWith(t0, close)
        THEN t0 ELSE ExtractFenced(t0)

\* analyze_playlist, lines 403-416: the text handed to json.loads.
AnalysisText(reply) == ReplaceQuotes(ExtractedText(reply, "{", "}"))

\* Mutant: objects with no comma between them are left as they are.
RepairSeparatorsNone(t) == t

\* Lines 585-587: if the text holds a closing brace followed by an opening
\* one, a comma is put between each such pair.
RepairSeparators(t) ==
    IF \E i \in 1..(Len(t) - 1) : t[i] = "}" /\ t[i + 1] = "{"
    THEN InsertCommas(t) ELSE t

\* Mutant: the text is never wrapped.
WrapInBracketsNever(t) == t

\* Lines 590-591: a text that does not start with [ is put between [ and ].
WrapInBrackets(t) ==
    IF StartsWith(t, "[") THEN t ELSE <<"[">> \o t \o <<"]">>

\* Lines 569-587: the text after the quotes and the separators are repaired.
RepairedText(reply) ==
    RepairSeparators(ReplaceQuotes(ExtractedText(reply, "[", "]")))

\* get_song_recommendations, lines 569-591: the text handed to json.loads.
RecText(reply) == WrapInBrackets(RepairedText(reply))

\* ---- field validation ----
RequiredFields == <<"general_description", "bpm_range", "instruments",
                    "key_distribution", "mood_description", "genre_analysis">>
TextFields == {"general_description", "mood_description", "genre_analysis"}
BpmFields == <<"min", "max", "most_common">>
RecFields == <<"title", "artist", "reasoning", "attributes", "spotify_url">>

\* Mutant: a missing text field is filled with an empty mapping too.
FieldDefaultAllMaps(f) == JObj(EmptyMap)

\* The value a missing required field gets (line 429).
FieldDefault(f) ==
    IF f \in TextFields THEN S("Analysis incomplete") ELSE JObj(EmptyMap)

\* Mutant: the defaults of min and max change places.
BpmDefaultSwapped(f) ==
    JNum(IF f = "most_common" THEN DefaultBpmCommon
         ELSE IF f = "min" THEN DefaultBpmMax ELSE DefaultBpmMin)

\* The value a missing bpm_range key gets (line 435).
BpmDefault(f) ==
    JNum(IF f = "most_common" THEN DefaultBpmCommon
         ELSE IF f = "min" THEN DefaultBpmMin ELSE DefaultBpmMax)

\* Mutant: a missing attributes gets the text placeholder.
RecDefaultAllText(f) == S("Not specified")

\* The value a missing recommendation field gets (line 611).
RecDefault(f) == IF f # "attributes" THEN S("Not specified") ELSE JObj(EmptyMap)

\* for field in fields: if field not in o: o[field] = its default;
\* defaults[i] is the default of fields[i].
FillMissing(o, fields, defaults) ==
    LET F[i \in 0..Len(fields)] ==
            IF i = 0 THEN o
            ELSE IF HasKey(F[i - 1], fields[i]) THEN F[i - 1]
            ELSE SetKey(F[i - 1], fields[i], defaults[i])
    IN  F[Len(fields)]

\* Lines 422-435 on a parsed dict.
ValidateAnalysis(a) ==
    LET a1 == FillMissing(a, RequiredFields,
                          [i \in 1..Len(RequiredFields) |->
                              FieldDefault(RequiredFields[i])])
    IN  IF HasKey(a1, "bpm_range") /\ IsObj(a1.v[K("bpm_range")])
        THEN SetKey(a1, "bpm_range",
                    FillMissing(a1.v[K("bpm_range")], BpmFields,
                                [i \in 1..Len(BpmFields) |->
                                    BpmDefault(BpmFields[i])]))
        ELSE a1

\* Lines 603-613: the mappings of the list, each with its fields filled.
RECURSIVE ValidateRecs(_, _)
ValidateRecs(recs, valid) ==
    IF recs = <<>> THEN valid
    ELSE ValidateRecs(Tail(recs),
                      IF ~IsObj(Head(recs)) THEN valid
                      ELSE Append(valid,
                                  FillMissing(Head(recs), RecFields,
                                              [i \in 1..Len(RecFields) |->
                                                  RecDefault(RecFields[i])])))

\* One reply in analyze_playlist (lines 403-442): "ok" with the record
\* returned, "decode_error" for JSONDecodeError, "error" for the TypeError
\* the validation raises on a value that is no dict.
AnalyzeReplyOutcome(reply) ==
    LET p == JsonLoads(AnalysisText(reply))
    IN  IF ~p.ok THEN [kind |-> "decode_error", val |-> JNull]
        ELSE IF ~IsObj(p.val) THEN [kind |-> "error", val |-> JNull]
        ELSE [kind |-> "ok", val |-> ValidateAnalysis(p.val)]

\* One reply in get_song_recommendations (lines 569-625): "error" is the
\* ValueError raised when no element is a mapping.
RecReplyOutcome(reply) ==
    LET p == JsonLoads(RecText(reply))
    IN  IF ~p.ok THEN [kind |-> "decode_error", val |-> JNull]
        ELSE LET recs == IF IsArr(p.val) THEN p.val.v ELSE <<p.val>>
                 valid == ValidateRecs(recs, <<>>)
             IN  IF valid = <<>> THEN [kind |-> "error", val |-> JNull]
                 ELSE [kind |-> "ok", val |-> JArr(valid)]

\* ---- the hardcoded fallbacks ----

\* The record of lines 458-478 (the three texts are one word each).
FallbackAnalysis ==
    ObjOf(<< <<"general_description", S("fallback general description")>>,
             <<"bpm_range",
               ObjOf(<< <<"min", JNum(DefaultBpmMin)>>,
                        <<"max", JNum(DefaultBpmMax)>>,
                        <<"most_common", JNum(DefaultBpmCommon)>> >>)>>,
             <<"instruments",
               ObjOf(<< <<"Guitar", S("high")>>, <<"Piano", S("medium")>>,
                        <<"Drums", S("high")>>, <<"Bass", S("high")>>,
                        <<"Synthesizer", S("medium")>>,
                        <<"Vocals", S("high")>> >>)>>,
             <<"key_distribution",
               ObjOf(<< <<"C Major", JNum(5)>>, <<"G Major", JNum(4)>>,
                        <<"A Minor", JNum(3)>>, <<"D Major", JNum(2)>>,
                        <<"E Minor", JNum(2)>> >>)>>,
             <<"mood_description", S("fallback mood description")>>,
             <<"genre_analysis", S("fallback genre analysis")>> >>)

\* One hardcoded recommendation (lines 643-809); the reasoning and the
\* track id of the url are named after the title.
RecLit(title, artist, tempo, key, mood, style, instruments) ==
    ObjOf(<< <<"title", S(title)>>,
             <<"artist", S(artist)>>,
             <<"reasoning", JStr(<<"reasoning for", title>>)>>,
             <<"attributes",
               ObjOf(<< <<"tempo", S(tempo)>>, <<"key", S(key)>>,
                        <<"mood", S(mood)>>,
                        <<"production style", S(style)>>,
                        <<"instruments", S(instruments)>> >>)>>,
             <<"spotify_url",
               JStr(<<"https://open.spotify.com/track/", title>>)>> >>)

BollywoodRecs ==
    JArr(<< RecLit("Chaiyya Chaiyya", "Sukhwinder Singh, Sapna Awasthi",
                   "Medium-Fast", "A Minor", "Energetic, Celebratory",
                   "Rich, Percussive",
                   "Tabla, Flute, Sitar, Vocals, Percussion"),
            RecLit("Tum Hi Ho", "Arijit Singh", "Slow", "E Minor",
                   "Romantic, Melancholic", "Intimate, Polished",
                   "Piano, Strings, Guitar, Vocals"),
            RecLit("Jai Ho", "A.R. Rahman, Sukhwinder Singh", "Fast",
                   "D Minor", "Triumphant, Uplifting",
                   "Dynamic, Multi-layered",
                   "Tabla, Percussion, Strings, Vocals"),
            RecLit("Kal Ho Naa Ho", "Sonu Nigam", "Medium", "G Major",
                   "Emotional, Bittersweet", "Orchestral, Cinematic",
                   "Strings, Piano, Flute, Vocals") >>)

ElectronicRecs ==
    JArr(<< RecLit("Strobe", "deadmau5", "Medium", "C Minor",
                   "Atmospheric, Euphoric", "Layered, Progressive",
                   "Synthesizer, Drum Machine, Bass"),
            RecLit("Innerbloom", "RUFUS DU SOL", "Slow-Medium", "G Minor",
                   "Hypnotic, Introspective", "Atmospheric, Spatial",
                   "Synthesizer, Electronic Drums, Vocals"),
            RecLit("Opus", "Eric Prydz", "Medium", "D Minor",
                   "Epic, Euphoric", "Cinematic, Dynamic",
                   "Synthesizer, Drum Machine, Bass"),
            RecLit("Immunity", "Jon Hopkins", "Medium-Slow", "B Minor",
                   "Introspective, Meditative", "Textural, Detailed",
                   "Synthesizers, Piano, Field Recordings, Electronic Percussion") >>)

DefaultRecs ==
    JArr(<< RecLit("Bohemian Rhapsody", "Queen", "Varied", "Bb Major",
                   "Dramatic", "Theatrical, Layered",
                   "Piano, Guitar, Bass, Drums, Vocals"),
            RecLit("Dreams", "Fleetwood Mac", "Medium", "F Major",
                   "Dreamy, Melodic", "Warm, Balanced",
                   "Guitar, Bass, Drums, Vocals"),
            RecLit("Redbone", "Childish Gambino", "Slow", "D Minor",
                   "Soulful, Atmospheric", "Vintage, Warm",
                   "Guitar, Bass, Drums, Synths, Vocals"),
            RecLit("Superstition", "Stevie Wonder", "Medium-Fast",
                   "Eb Minor", "Energetic, Groovy", "Organic, Precise",
                   "Clavinet, Bass, Drums, Horns, Vocals") >>)

\* word in analysis.get("general_description", "").lower(), for a str.
DescriptionMentions(a, words) ==
    LET d == Get(a, "general_description", JStr(<<>>))
    IN  \E w \in words : Mentions(Lower(d.v), w)

\* any(key.lower() in names for key in analysis.get("instruments", {}).keys())
InstrumentNamed(a, names) ==
    LET ins == Get(a, "instruments", JObj(EmptyMap))
    IN  \E k \in DOMAIN ins.v : Len(k) = 1 /\ LowerWord(k[1]) \in names

IndianWords == {"indian", "bollywood", "hindi"}
IndianInstruments == {"sitar", "tabla", "indian"}
ElectronicWords == {"electronic", "dance"}
ElectronicInstruments == {"synthesizer", "synth", "drum machine", "electronic"}

\* The except block of get_song_recommendations (lines 638-809) raises:
\* .lower() of a description that is no str, or .keys() of instruments
\* that are no dict, when the description did not decide the test before.
HandlerRaises(a) ==
    LET d == Get(a, "general_description", JStr(<<>>))
        ins == Get(a, "instruments", JObj(EmptyMap))
    IN  \/ ~IsStr(d)
        \/ /\ ~DescriptionMentions(a, IndianWords)
           /\ ~IsObj(ins)

\* The list the except block returns.
FallbackRecs(a) ==
    IF DescriptionMentions(a, IndianWords)
       \/ InstrumentNamed(a, IndianInstruments)
    THEN BollywoodRecs
    ELSE IF DescriptionMentions(a, ElectronicWords)
            \/ InstrumentNamed(a, ElectronicInstruments)
    THEN ElectronicRecs
    ELSE DefaultRecs

\* ---- prompt construction ----
Decades == <<"1950s", "1960s", "1970s", "1980s", "1990s", "2000s", "2010s",
             "2020s">>

\* decade in decade_info (line 498) for the decade_profile of the analysis:
\* a substring of a str, an element of a list, a key of a dict.
DecadeIn(info, decade) ==
    CASE IsStr(info) -> Mentions(info.v, decade)
      [] IsArr(info) -> \E i \in 1..Len(info.v) : info.v[i] = S(decade)
      [] IsObj(info) -> K(decade) \in DOMAIN info.v
      [] OTHER -> FALSE

\* Lines 492-500 raise TypeError: the decade_profile is no container.
DecadeScanRaises(a) ==
    LET info == Get(a, "decade_profile", JStr(<<>>))
    IN  ~(IsStr(info) \/ IsArr(info) \/ IsObj(info))

\* primary_decade as its decade word, or "" when none is found.
PrimaryDecade(a) ==
    LET info == Get(a, "decade_profile", JStr(<<>>))
        found == {i \in 1..Len(Decades) : DecadeIn(info, Decades[i])}
    IN  IF found = {} THEN "" ELSE Decades[SetMin(found)]

\* Lines 506-512 raise AttributeError: .keys() of a value that is no dict.
ProfileRaises(a) ==
    \/ ~IsObj(Get(a, "instruments", JObj(EmptyMap)))
    \/ ~IsObj(Get(a, "key_distribution", JObj(EmptyMap)))

\* simplified_analysis (lines 506-517).  The instrument and key names are
\* kept as sets: their order and the cut to 5 and 3 names are left out.
SimplifiedAnalysis(a) ==
    [description |-> Get(a, "general_description", S("Mixed musical styles")),
     genres |-> Get(a, "genre_analysis", S("Various genres")),
     mood |-> Get(a, "mood_description", S("Various moods")),
     instruments |-> DOMAIN Get(a, "instruments", JObj(EmptyMap)).v,
     keys |-> DOMAIN Get(a, "key_distribution", JObj(EmptyMap)).v,
     primary_decade |-> PrimaryDecade(a)]

\* Mutant: no sample is drawn, every track goes into the prompt.
SamplesAll(n) == {[i \in 1..n |-> i]}

\* sample_tracks (lines 318-319): the tracks themselves, or a random
\* sample of SampleSize of them in random order; of the samples the
\* first SampleSize tracks in order and the last SampleSize reversed.
Samples(n) ==
    IF n > SampleSize
    THEN {[i \in 1..SampleSize |-> i], [i \in 1..SampleSize |-> n + 1 - i]}
    ELSE {[i \in 1..n |-> i]}

(***************************************************************************)
(* The replies of the language model: the texts generate_content may       *)
(* return.                                                                 *)
(***************************************************************************)
\* JSON text of a string of one word, a number, a member, an object, an
\* array.
TStr(w) == <<DQ, w, DQ>>
DigitTok == <<"0", "1", "2", "3", "4", "5", "6", "7", "8", "9">>
RECURSIVE TNat(_)
TNat(n) ==
    IF n < 10 THEN <<DigitTok[n + 1]>>
    ELSE TNat(n \div 10) \o <<DigitTok[(n % 10) + 1]>>
TInt(n) == IF n < 0 THEN <<"-">> \o TNat(0 - n) ELSE TNat(n)
TPair(k, v) == TStr(k) \o <<":", " ">> \o v
RECURSIVE TJoin(_)
TJoin(parts) ==
    IF parts = <<>> THEN <<>>
    ELSE IF Len(parts) = 1 THEN parts[1]
    ELSE parts[1] \o <<",", " ">> \o TJoin(Tail(parts))
TObj(members) == <<"{">> \o TJoin(members) \o <<"}">>
TArr(elems) == <<"[">> \o TJoin(elems) \o <<"]">>

\* The members of seq whose index is in the set idx, in order.
Pick(seq, idx) ==
    LET F[i \in 0..Len(seq)] ==
            IF i = 0 THEN <<>>
            ELSE IF i \in idx THEN Append(F[i - 1], seq[i]) ELSE F[i - 1]
    IN  F[Len(seq)]

\* bpm_range texts: every subset of the three keys, over a few triples
\* <<min, max, most_common>>, ordered and not.
BpmTriples == {<<90, 150, 120>>, <<200, 100, 120>>, <<120, 120, 120>>,
               <<0, 0, 0>>}
TBpm(tr, idx) ==
    TObj(Pick(<<TPair("min", TInt(tr[1])), TPair("max", TInt(tr[2])),
                TPair("most_common", TInt(tr[3]))>>, idx))

\* A well-typed member for each required field of the analysis.
GoodMembers ==
    <<TPair("general_description", TStr("x")),
      TPair("bpm_range", TBpm(<<90, 150, 120>>, {1, 2, 3})),
      TPair("instruments", TObj(<<TPair("Guitar", TStr("high"))>>)),
      TPair("key_distribution", TObj(<<TPair("C Major", TInt(3))>>)),
      TPair("mood_description", TStr("calm")),
      TPair("genre_analysis", TStr("rock"))>>

\* The reply of the scenario: only general_description, in a json fence.
ExampleObject == TObj(<<TPair("general_description", TStr("x"))>>)
FencedExample ==
    <<"Here you go:", "\n", FENCE, "json", "\n">> \o ExampleObject
        \o <<"\n", FENCE>>

\* Valid JSON with every required key and an apostrophe in a string.
ApostropheAnalysis ==
    TObj(<<TPair("general_description", <<DQ, "it", SQ, "s", DQ>>)>>
         \o Pick(GoodMembers, 2..6))

AnalysisReplies ==
    \* every subset of the required fields, well typed
    {TObj(Pick(GoodMembers, idx)) : idx \in SUBSET (1..6)}
    \* a bpm_range with every subset of its keys
    \cup {TObj(<<TPair("bpm_range", TBpm(tr, idx))>>) :
             tr \in BpmTriples, idx \in SUBSET (1..3)}
    \* fields of the wrong type
    \cup {TObj(<<TPair(f, v)>>) :
             f \in {"general_description", "bpm_range", "instruments",
                    "decade_profile"},
             v \in {<<"null">>, TInt(7), TStr("lots"),
                    TArr(<<TStr("Guitar")>>), TObj(<<>>)}}
    \* descriptions and instruments the fallback lists are chosen by, and a
    \* decade profile
    \cup {TObj(<<TPair("general_description", TStr("Bollywood"))>>),
          TObj(<<TPair("general_description", TStr("Dance")),
                 TPair("instruments", TInt(7))>>),
          TObj(<<TPair("instruments", TObj(<<TPair("Sitar", TStr("High"))>>))>>),
          TObj(<<TPair("instruments", TObj(<<TPair("Synth", TInt(2))>>))>>),
          TObj(<<TPair("decade_profile", TStr("1980s"))>>)}
    \* the wrappings of an object
    \cup {FencedExample,
          <<FENCE, "\n">> \o ExampleObject \o <<"\n", FENCE>>,
          <<FENCE, "json", "\n">> \o ExampleObject,
          <<FENCE, "json">> \o ExampleObject \o <<FENCE, "\n", "Enjoy">>,
          <<FENCE, "json", "\n", "{", SQ, "general_description", SQ, ":",
            SQ, "x", SQ, "}", " ", "\n", FENCE>>,
          <<FENCE, "\n">> \o ExampleObject \o <<FENCE, " ", FENCE, "json">>
             \o TObj(<<>>) \o <<FENCE>>,
          <<" ", "\n">> \o ExampleObject \o <<"\n">>,
          <<"Here you go:", " ">> \o ExampleObject \o <<" ", "thanks">>,
          <<"{", SQ, "general_description", SQ, ":", SQ, "x", SQ, "}">>,
          TObj(<<TPair("general_description", <<DQ, "it", SQ, "s", DQ>>)>>),
          ApostropheAnalysis}
    \* JSON that is no object
    \cup {TArr(<<TInt(1)>>), TStr("text"), TInt(5), <<"null">>, <<"true">>,
          TArr(<<TStr("general_description")>>)}
    \* text that is no JSON
    \cup {<<>>, <<"Sorry, I cannot help">>,
          <<"{", DQ, "general_description", DQ, ":", DQ, "x", DQ>>,
          <<"{", "}", "{", "}">>}

\* A member for each required field of a recommendation.
GoodRecMembers ==
    <<TPair("title", TStr("A")),
      TPair("artist", TStr("B")),
      TPair("reasoning", TStr("because")),
      TPair("attributes", TObj(<<TPair("tempo", TStr("Fast"))>>)),
      TPair("spotify_url", TStr("https://open.spotify.com/track/1"))>>

TitleA == TObj(<<TPair("title", TStr("A"))>>)
TitleB == TObj(<<TPair("title", TStr("B"))>>)
\* The reply of the scenario: two objects with no comma between them.
MissingCommaExample == <<"[">> \o TitleA \o TitleB \o <<"]">>

\* A valid list of one recommendation with every required key and an
\* apostrophe in its title.
ApostropheRecs ==
    TArr(<<TObj(<<TPair("title", <<DQ, "Don", SQ, "t", DQ>>)>>
                \o Pick(GoodRecMembers, 2..5))>>)

RecReplies ==
    \* one recommendation with every subset of the required fields
    {TArr(<<TObj(Pick(GoodRecMembers, idx))>>) : idx \in SUBSET (1..5)}
    \* fields present with null or a value of another type
    \cup {TArr(<<TObj(<<TPair(f, v)>>)>>) :
             f \in {"title", "attributes", "spotify_url"},
             v \in {<<"null">>, TInt(7), TStr("x")}}
    \* lists with elements that are no mapping
    \cup {TArr(<<TitleA, TInt(5), TStr("x"), TitleB>>),
          TArr(<<TInt(5), TitleB, <<"null">>>>),
          TArr(<<TArr(<<TitleA>>), TitleB>>),
          TArr(<<TInt(5), TStr("x")>>),
          TArr(<<>>),
          TArr(<<TitleA, TitleB, TObj(Pick(GoodRecMembers, 1..5))>>)}
    \* objects with no comma between them, and replies that are no array
    \cup {MissingCommaExample,
          TitleA,
          TitleA \o TitleB,
          TInt(5),
          <<"null">>,
          TStr("text")}
    \* the wrappings of an array
    \cup {<<"Here you go:", "\n", FENCE, "json", "\n">> \o TArr(<<TitleA>>)
             \o <<"\n", FENCE>>,
          <<FENCE, "\n">> \o TArr(<<TitleA>>) \o <<"\n", FENCE>>,
          <<FENCE, "json">> \o TArr(<<TitleA>>) \o <<FENCE, "\n", "Enjoy">>,
          <<FENCE, "\n">> \o TitleA \o <<FENCE, " ", FENCE, "json">>
             \o TArr(<<TitleB>>) \o <<FENCE>>,
          <<"Here you go:", " ">> \o TArr(<<TitleA>>) \o <<" ", "thanks">>,
          <<"[", "{", SQ, "title", SQ, ":", SQ, "A", SQ, "}", "]">>,
          TArr(<<TObj(<<TPair("title", <<DQ, "it", SQ, "s", DQ>>)>>)>>),
          ApostropheRecs}
    \* text that is no JSON
    \cup {<<>>, <<"Sorry, I cannot help">>,
          <<"[", "{", DQ, "title", DQ, ":", DQ, "A", DQ, "}">>}

\* The analyses get_song_recommendations is called with: what
\* analyze_playlist returns for these replies, and its fallback record.
AnalysisInputReplies ==
    <<TObj(GoodMembers),
      TObj(<<TPair("general_description", TStr("Bollywood"))>>),
      TObj(<<TPair("instruments", TObj(<<TPair("Synth", TInt(2))>>))>>),
      TObj(<<TPair("decade_profile", TStr("1980s"))>>),
      TObj(<<TPair("instruments", TArr(<<TStr("Guitar")>>))>>),
      TObj(<<TPair("general_description", <<"null">>)>>),
      TObj(<<TPair("general_description", TStr("Dance")),
             TPair("instruments", TInt(7))>>),
      TObj(<<TPair("decade_profile", TInt(7))>>)>>

AnalysisInputs ==
    {FallbackAnalysis}
        \cup {AnalyzeReplyOutcome(AnalysisInputReplies[i]).val :
                 i \in 1..Len(AnalysisInputReplies)}

\* What each reply comes to, worked out once for the whole set.
AnalyzeOutcomes ==
    {[reply |-> r, out |-> AnalyzeReplyOutcome(r)] : r \in AnalysisReplies}
RecOutcomes ==
    {[reply |-> r, out |-> RecReplyOutcome(r)] : r \in RecReplies}
OutcomesOf(fn) == IF fn = "analyze" THEN AnalyzeOutcomes ELSE RecOutcomes

TrackCounts == {1, SampleSize, SampleSize + 1}


LLMIdle ==
    /\ lPc = "idle"
    /\ llmFn = "none"
    /\ tracksIn = 0
    /\ analysisIn = JNull
    /\ prompt = NoPrompt
    /\ attempt = 0
    /\ calls = 0
    /\ failures = 0
    /\ sawDecodeError = FALSE
    /\ lastPrompt = NoPrompt
    /\ lastReply = <<>>
    /\ lastOutcome = "none"
    /\ lastWait = NoWait
    /\ result = JNull
    /\ resultKind = "none"

(***************************************************************************)
(* Model selection: setup_gemini and its FallbackModel (gemini_service.py) *)
(*                                                                         *)
(* A model name is a sequence of tokens; the two substrings the discovery  *)
(* loop looks for are one token each.                                      *)
(***************************************************************************)
MaxSetups == 2

\* available_models (lines 80-88)
available_models ==
    << <<"models/", "gemini-2", ".0-pro">>,
       <<"models/", "gemini-2", ".0-flash">>,
       <<"models/", "gemini-1.5", "-flash">>,
       <<"models/", "gemini-1.5", "-pro">>,
       <<"gemini-1", ".0-pro">>,
       <<"gemini-pro">>,
       <<"models/", "gemini-pro">> >>

\* Names genai.list_models() may report besides those of the list.
EmbeddingModel == <<"models/", "embedding-001">>
NewerModel == <<"models/", "gemini-2", ".5-flash">>

\* any(candidate in model_name for candidate in [...]) (line 95)
DiscoveryMarks == {"gemini-2", "gemini-1.5"}
Discoverable(name) == \E i \in 1..Len(name) : name[i] \in DiscoveryMarks

\* The models the discovery loop (lines 92-106) walks over.  `models` is
\* unbound when list_models raised (the NameError is caught at line 105),
\* and empty when it is an iterator the print loop of lines 74-75 has
\* already consumed.
DiscoveryOrder(env) ==
    IF env.listing = "list"
    THEN SelectSeq(env.listed, Discoverable)
    ELSE <<>>

\* The order in which setup_gemini would probe when no probe succeeds: the
\* discovered models, then available_models (lines 92-118).
ProbeOrder(env) == DiscoveryOrder(env) \o available_models

\* The position of the first model of the order that accepts the probe
\* "Hello" (0: none does).
FirstAccepted(order, accepts) ==
    LET hits == {i \in 1..Len(order) : order[i] \in accepts}
    IN  IF hits = {} THEN 0 ELSE SetMin(hits)

NoModel == [kind |-> "none", name |-> <<>>]
FallbackModel == [kind |-> "fallback", name |-> <<>>]
RealModel(name) == [kind |-> "real", name |-> name]

\* Mutant: the predefined list is probed before the discovered models.
setup_geminiListFirst(env) ==
    IF ~env.key
    THEN [raises |-> TRUE, model |-> NoModel, probes |-> <<>>]
    ELSE LET order == available_models \o DiscoveryOrder(env)
             hit == FirstAccepted(order, env.accepts)
         IN  IF hit = 0
             THEN [raises |-> FALSE, model |-> FallbackModel, probes |-> order]
             ELSE [raises |-> FALSE, model |-> RealModel(order[hit]),
                   probes |-> SubSeq(order, 1, hit)]

\* setup_gemini (lines 53-301): raises without an API key (lines 55-57);
\* otherwise probes in order and returns the first model that accepts
\* (lines 98-100, 112-116), and when none does the raise of lines 121-124
\* is caught at line 127 and a FallbackModel is returned (line 301).
setup_gemini(env) ==
    IF ~env.key
    THEN [raises |-> TRUE, model |-> NoModel, probes |-> <<>>]
    ELSE LET order == ProbeOrder(env)
             hit == FirstAccepted(order, env.accepts)
         IN  IF hit = 0
             THEN [raises |-> FALSE, model |-> FallbackModel, probes |-> order]
             ELSE [raises |-> FALSE, model |-> RealModel(order[hit]),
                   probes |-> SubSeq(order, 1, hit)]

\* ---- str.split on a token ----
Occurrences(text, tok) == {i \in 1..Len(text) : text[i] = tok}
\* The position of the k-th occurrence (k >= 1) of tok.
NthPos(text, tok, k) ==
    CHOOSE p \in Occurrences(text, tok) :
        Cardinality({q \in Occurrences(text, tok) : q < p}) = k - 1
\* text.split(tok): its number of pieces, and piece k (from 0).
PieceCount(text, tok) == Cardinality(Occurrences(text, tok)) + 1
Piece(text, tok, k) ==
    LET lo == IF k = 0 THEN 0 ELSE NthPos(text, tok, k)
        hi == IF k + 1 < PieceCount(text, tok)
              THEN NthPos(text, tok, k + 1) ELSE Len(text) + 1
    IN  SubSeq(text, lo + 1, hi - 1)
SplitOn(text, tok) ==
    [k \in 1..PieceCount(text, tok) |-> Piece(text, tok, k - 1)]

\* ---- the prompts the two callers build, as texts ----
\* The tokens FallbackModel looks for are one token each: "analyze these
\* songs", "SONGS:", "Format", "recommend", "PROFILE:", "For each
\* recommendation", the line feed and ". " (a full stop and a space).
DotSpace == ". "

\* name by artist (release_date) of the i-th sampled track (line 355).
TrackName(i) ==
    CASE i = 2 -> <<"Mr", DotSpace, "Blue Sky by ELO (1977)">>
      [] i = 3 -> <<"Don", SQ, "t Stop by Fleetwood Mac (1977)">>
      [] OTHER -> <<"Song ">> \o TNat(i) \o <<" by Artist (1977)">>

\* track_info (lines 355-356): the numbered lines joined by line feeds.
TrackLine(i) == TNat(i) \o <<DotSpace>> \o TrackName(i)
track_info(n) ==
    LET F[i \in 0..n] ==
            IF i = 0 THEN <<>>
            ELSE IF i = 1 THEN TrackLine(1)
            ELSE F[i - 1] \o <<"\n">> \o TrackLine(i)
    IN  F[n]

\* decade_info (lines 341-350) of n tracks of the 1970s.
decade_info(n) ==
    IF n = 0 THEN <<>>
    ELSE <<"\n", "\n", "NOTE: This playlist contains ">> \o TNat(n)
         \o <<" tracks (100.0%) from the 1970s era.", "\n",
              "Decade distribution: {1970: ">> \o TNat(n) \o <<"}">>

\* The prompt of analyze_playlist (lines 358-379) for n sampled tracks.
AnalysisPromptText(n) ==
    <<"\n", "As a music analyst specializing in musical linguistics, ",
      "analyze these songs",
      " and provide musical attributes in JSON format:", "\n", "\n",
      "SONGS:", "\n">>
    \o track_info(n) \o decade_info(n)
    \o <<"\n", "\n",
         "Analyze the shared linguistic patterns in this music collection:",
         "\n", "- Consider production techniques, sonic texture, and timbre",
         "\n", "\n", "Format",
         " your response ONLY as a JSON object with these keys:", "\n",
         "IMPORTANT: Return ONLY valid JSON.", "\n">>

\* json.dumps(simplified_analysis, indent=2) of two analyses (line 524).
ProfileTexts ==
    { <<"{", "\n", " ">> \o TPair("description", TStr("Mixed musical styles"))
        \o <<",", "\n", " ">> \o TPair("genres", TStr("Various genres"))
        \o <<",", "\n", " ">> \o TPair("mood", TStr("Various moods"))
        \o <<",", "\n", " ">> \o TPair("instruments", TArr(<<>>))
        \o <<",", "\n", " ">> \o TPair("keys", TArr(<<>>))
        \o <<"\n", "}">>,
      <<"{", "\n", " ">> \o TPair("description", TStr("Bollywood"))
        \o <<",", "\n", " ">> \o TPair("genres", TStr("rock"))
        \o <<",", "\n", " ">> \o TPair("mood", TStr("Various moods"))
        \o <<",", "\n", " ">>
        \o TPair("instruments", TArr(<<TStr("Guitar"), TStr("Sitar")>>))
        \o <<",", "\n", " ">> \o TPair("keys", TArr(<<TStr("C Major")>>))
        \o <<"\n", "}">> }

\* The prompt of get_song_recommendations (lines 520-546).
RecPromptText(profile) ==
    <<"\n", "As a music ", "recommend", "ation expert, ", "recommend",
      " 3 songs that match this musical profile:", "\n", "\n",
      "PROFILE:", "\n">>
    \o profile
    \o <<"\n", "\n",
         "Focus on these linguistic elements in your recommendations:",
         "\n", "IMPORTANT DECADE INSTRUCTIONS:", "\n", "\n",
         "For each recommendation", ", provide ONLY:", "\n",
         "Return ONLY a JSON array.", "\n">>

\* The probe of setup_gemini (lines 100, 114).
ProbeText == <<"Hello">>

\* Numbers of sampled tracks: none, fewer than the 3 an example needs,
\* 3 and more, and the numbers from which mood and genre change.
FallbackTrackCounts == {0, 2, 3, 4, 12, SampleSize}

SetupPrompts ==
    {AnalysisPromptText(n) : n \in FallbackTrackCounts}
        \cup {RecPromptText(p) : p \in ProfileTexts}
        \cup {ProbeText}

\* ---- FallbackModel.generate_content(prompt).text (lines 136-299) ----
\* JSON text without spaces, as the literals of lines 210-297 are written.
CPair(k, v) == TStr(k) \o <<":">> \o v
RECURSIVE CJoin(_)
CJoin(parts) ==
    IF parts = <<>> THEN <<>>
    ELSE IF Len(parts) = 1 THEN parts[1]
    ELSE parts[1] \o <<",">> \o CJoin(Tail(parts))
CObj(members) == <<"{">> \o CJoin(members) \o <<"}">>
CArr(elems) == <<"[">> \o CJoin(elems) \o <<"]">>

\* Line 299.
StatusFallbackText == CObj(<<CPair("status", TStr("fallback"))>>)

\* Line 210.
FixedAnalysisText ==
    CObj(<<CPair("general_description",
                 TStr("This playlist appears to contain a mix of musical styles.")),
           CPair("bpm_range",
                 CObj(<<CPair("min", TNat(80)), CPair("max", TNat(160)),
                        CPair("most_common", TNat(120))>>)),
           CPair("instruments",
                 CObj(<<CPair("Guitar", TStr("high")),
                        CPair("Piano", TStr("medium")),
                        CPair("Drums", TStr("high")),
                        CPair("Bass", TStr("high")),
                        CPair("Synthesizer", TStr("medium")),
                        CPair("Vocals", TStr("high"))>>)),
           CPair("key_distribution",
                 CObj(<<CPair("C Major", TNat(5)), CPair("G Major", TNat(4)),
                        CPair("A Minor", TNat(3)), CPair("D Major", TNat(2)),
                        CPair("E Minor", TNat(2))>>)),
           CPair("mood_description",
                 TStr("The playlist contains a variety of moods and energies.")),
           CPair("genre_analysis",
                 TStr("Multiple genres are represented in this playlist."))>>)

\* One recommendation of the literal of line 293; the reasoning is cut to
\* its first words.
FixedRec(title, artist, reasoning, tempo, key, mood, style, instr, track) ==
    CObj(<<CPair("title", TStr(title)), CPair("artist", TStr(artist)),
           CPair("reasoning", TStr(reasoning)),
           CPair("attributes",
                 CObj(<<CPair("tempo", TStr(tempo)), CPair("key", TStr(key)),
                        CPair("mood", TStr(mood)),
                        CPair("production style", TStr(style)),
                        CPair("instruments", TStr(instr))>>)),
           CPair("spotify_url",
                 <<DQ, "https://open.spotify.com/track/", track, DQ>>)>>)

\* Line 293.
FixedRecText ==
    CArr(<<FixedRec("Bohemian Rhapsody", "Queen",
                    "This iconic rock song offers a sophisticated linguistic experience",
                    "Varied", "Bb Major", "Dramatic", "Theatrical, Layered",
                    "Piano, Guitar, Bass, Drums, Vocals",
                    "7tFiyTwD0nx5a1eklYtX2J"),
           FixedRec("Dreams", "Fleetwood Mac",
                    "This timeless classic demonstrates musical linguistic harmony",
                    "Medium", "F Major", "Dreamy, Melodic", "Warm, Balanced",
                    "Guitar, Bass, Drums, Vocals", "0ofHAoxe9vBkTCp2UQIavz"),
           FixedRec("Redbone", "Childish Gambino",
                    "With its unique blend of funk, soul, and R&B elements",
                    "Slow", "D Minor", "Soulful, Atmospheric",
                    "Vintage, Warm", "Guitar, Bass, Drums, Synths, Vocals",
                    "3kxfsdsCpFgN412fpnW85Y")>>)

\* The lists of lines 222-289, which are chosen by the words of a profile
\* that json.loads accepted, stand as one text.
ProfileRecText == CArr(<<CObj(<<CPair("title", TStr("by profile"))>>)>>)

\* keys (lines 180-181)
FallbackKeys ==
    <<"C Major", "G Major", "D Major", "A Major", "E Major", "B Major",
      "F Major", "A Minor", "E Minor", "B Minor", "F# Minor", "D Minor">>

\* hash(track) % len(keys) of the i-th line, which differs from one
\* interpreter run to the next: all lines alike, or spread over the keys.
HashChoices ==
    {[i \in 1..SampleSize |-> 0], [i \in 1..SampleSize |-> (5 * i) % 12]}

\* random.sample(track_list, 3) (line 157): three distinct positions;
\* all draws from up to 4 lines, two of the draws from more.
SampleChoices(n) ==
    IF n < 3 THEN {<<>>}
    ELSE IF n <= 4
    THEN {s \in [1..3 -> 1..n] : \A a, b \in 1..3 : a # b => s[a] # s[b]}
    ELSE {<<1, 2, 3>>, <<n, n - 1, n - 2>>}

\* key_dist (lines 182-190): the count of each key in the order the keys
\* first occur, sorted by count (largest first, ties in order), first 5.
FallbackKeyDist(n, hash) ==
    LET first == SelectSeq([i \in 1..n |-> i],
                           LAMBDA i : \A j \in 1..(i - 1) : hash[j] # hash[i])
        Count(i) == Cardinality({j \in 1..n : hash[j] = hash[i]})
        m == Len(first)
        Before(b, a) ==
            \/ Count(first[b]) > Count(first[a])
            \/ Count(first[b]) = Count(first[a]) /\ b < a
        Rank(a) == 1 + Cardinality({b \in 1..m : Before(b, a)})
        sorted == [k \in 1..m |-> first[CHOOSE a \in 1..m : Rank(a) = k]]
        top == SubSeq(sorted, 1, IF m < 5 THEN m ELSE 5)
    IN  [k \in 1..Len(top) |->
            TPair(FallbackKeys[hash[top[k]] + 1], TNat(Count(top[k])))]

\* track_list (lines 146-150) of a prompt that holds "SONGS:": the lines
\* between "SONGS:" and "Format" that are not blank and hold ". ".
TrackList(ptext) ==
    LET section == Strip(Piece(Piece(ptext, "SONGS:", 1), "Format", 0))
        song_lines == SplitOn(section, "\n")
        stripped == [k \in 1..Len(song_lines) |-> Strip(song_lines[k])]
    IN  SelectSeq(stripped, LAMBDA l : l # <<>> /\ Mentions(l, DotSpace))

\* The number of lines random.sample draws from (0: it is not called).
SampledFrom(ptext) ==
    IF Mentions(ptext, "analyze these songs")
       /\ PieceCount(ptext, "SONGS:") >= 2
    THEN Len(TrackList(ptext)) ELSE 0

\* Lines 153-207: json.dumps of the analysis made up from the track lines.
DynamicAnalysisText(track_list, sample, hash) ==
    LET n == Len(track_list)
        Example(k) == Piece(track_list[sample[k]], DotSpace, 1)
        custom_desc ==
            <<"This playlist of ">> \o TNat(n)
            \o <<" tracks appears to contain a mix of musical styles">>
            \o (IF n >= 3
                THEN <<" with tracks like ">> \o Example(1) \o <<", ">>
                     \o Example(2) \o <<", ">> \o Example(3) \o <<".">>
                ELSE <<".">>)
        mood == IF n < 10 THEN "intimate and focused"
                ELSE IF n < 20 THEN "varied yet cohesive"
                ELSE "diverse and eclectic"
        genre ==
            IF n < 10
            THEN "cohesive collection focusing on a specific musical style"
            ELSE IF n < 20
            THEN "curated collection with complementary styles"
            ELSE "wide-ranging exploration of various musical styles"
        min_bpm == 70 + (n % 30)
        max_bpm == 120 + (n % 40)
        common_bpm == min_bpm + ((max_bpm - min_bpm) \div 2)
    IN  TObj(<<TPair("general_description", <<DQ>> \o custom_desc \o <<DQ>>),
               TPair("bpm_range",
                     TObj(<<TPair("min", TNat(min_bpm)),
                            TPair("max", TNat(max_bpm)),
                            TPair("most_common", TNat(common_bpm))>>)),
               TPair("instruments",
                     TObj(<<TPair("Guitar",
                                  TStr(IF n % 3 = 0 THEN "high" ELSE "medium")),
                            TPair("Piano",
                                  TStr(IF n % 2 = 0 THEN "medium" ELSE "low")),
                            TPair("Drums", TStr("high")),
                            TPair("Bass", TStr("high")),
                            TPair("Synthesizer",
                                  TStr(IF n % 2 = 1 THEN "medium" ELSE "high")),
                            TPair("Vocals", TStr("high"))>>)),
               TPair("key_distribution", TObj(FallbackKeyDist(n, hash))),
               TPair("mood_description",
                     <<DQ, "The playlist has a ", mood,
                       " mood with a mix of energies.", DQ>>),
               TPair("genre_analysis",
                     <<DQ, "This playlist represents a ", genre, ".", DQ>>)>>)

\* Mutant: every prompt is answered with the text of line 299.
FallbackTextFixed(ptext, sample, hash) ==
    [raises |-> FALSE, text |-> StatusFallbackText]

\* MockResponse.text (lines 140-299) for the prompt given to
\* generate_content, the draw of random.sample and the hash of the run.
\* An analysis prompt without "SONGS:" raises IndexError (line 147); every
\* failure of the recommendation branch is caught (line 290).
FallbackText(ptext, sample, hash) ==
    IF Mentions(ptext, "analyze these songs")
    THEN IF PieceCount(ptext, "SONGS:") < 2
         THEN [raises |-> TRUE, text |-> <<>>]
         ELSE IF TrackList(ptext) # <<>>
         THEN [raises |-> FALSE,
               text |-> DynamicAnalysisText(TrackList(ptext), sample, hash)]
         ELSE [raises |-> FALSE, text |-> FixedAnalysisText]
    ELSE IF Mentions(ptext, "recommend")
    THEN LET profile_data ==
                 IF PieceCount(ptext, "PROFILE:") < 2 THEN ParseFail
                 ELSE JsonLoads(Strip(Piece(Piece(ptext, "PROFILE:", 1),
                                            "For each recommendation", 0)))
         IN  IF profile_data.ok /\ IsObj(profile_data.val)
             THEN [raises |-> FALSE, text |-> ProfileRecText]
             ELSE [raises |-> FALSE, text |-> FixedRecText]
    ELSE [raises |-> FALSE, text |-> StatusFallbackText]

\* What the FallbackModel answers to each prompt, for each hash and each
\* draw of random.sample, worked out once for the whole set.
FallbackOutcomes ==
    UNION {{[prompt |-> p, hash |-> h, out |-> FallbackText(p, s, h)] :
               s \in SampleChoices(SampledFrom(p))} :
           p \in SetupPrompts, h \in HashChoices}

\* ---- the surroundings of setup_gemini ----
ListedModels == <<EmbeddingModel, available_models[4], NewerModel>>

\* GEMINI_API_KEY is set or not; list_models raises ("raises"), returns a
\* list ("list") or an iterator that can be walked once ("once"); the
\* models that accept the probe; the hash of the interpreter run.
AcceptChoices ==
    { {}, {EmbeddingModel}, {available_models[7]}, {available_models[3]},
      {available_models[1], available_models[4]}, {NewerModel},
      {NewerModel, available_models[1]}, {available_models[4]},
      {available_models[2], available_models[6]} }

SetupEnvs ==
    {[key |-> TRUE, listing |-> l, listed |-> ListedModels,
      accepts |-> a, hash |-> h] :
        l \in {"raises", "list", "once"}, a \in AcceptChoices,
        h \in HashChoices}
    \cup {[key |-> FALSE, listing |-> "list", listed |-> ListedModels,
           accepts |-> {available_models[1]},
           hash |-> [i \in 1..SampleSize |-> 0]]}

NoEnv == [key |-> FALSE, listing |-> "none", listed |-> <<>>,
          accepts |-> {}, hash |-> <<>>]
NoGeneration == [prompt |-> <<>>, raises |-> FALSE, text |-> <<>>]

SetupIdle ==
    /\ sPc = "idle"
    /\ sEnv = NoEnv
    /\ sModel = NoModel
    /\ sProbes = <<>>
    /\ sSetups = 0
    /\ sPrev = NoGeneration
    /\ sLast = NoGeneration

(***************************************************************************)
(* The page: URL checks and the button handlers of main (app.py,           *)
(* spotify_service.py)                                                     *)
(*                                                                         *)
(* A URL is a sequence of tokens: the text up to the host's slash and      *)
(* "playlist/" are one token each, every other token is one character.     *)
(***************************************************************************)
MaxUrlLen == 5
MaxRuns == 3

Host == "https://open.spotify.com/"
PlaylistSlash == "playlist/"
\* [a-zA-Z0-9]
Alnum == {"a", "1"}
UrlTokens == {Host, PlaylistSlash, "?"} \cup Alnum

\* The longest run of [a-zA-Z0-9] that starts at position i: its last
\* position (i - 1: the run is empty).
AlnumRunEnd(url, i) ==
    SetMax({i - 1} \cup {k \in i..Len(url) :
                            \A j \in i..k : url[j] \in Alnum})

\* Mutant: the pattern is searched anywhere in the URL.
validate_spotify_urlAnywhere(url) ==
    \E i \in 1..(Len(url) - 2) :
        /\ url[i] = Host
        /\ url[i + 1] = PlaylistSlash
        /\ url[i + 2] \in Alnum

\* validate_spotify_url (app.py lines 86-89): re.match, which anchors the
\* pattern at the start of the URL only.
validate_spotify_url(url) ==
    /\ Len(url) >= 3
    /\ url[1] = Host
    /\ url[2] = PlaylistSlash
    /\ url[3] \in Alnum

NoId == [raises |-> FALSE, id |-> <<>>]

\* Mutant: the id is cut after its first character.
get_playlist_id_from_urlOneChar(url) ==
    LET hits == {i \in 1..(Len(url) - 1) :
                    /\ url[i] = PlaylistSlash
                    /\ url[i + 1] \in Alnum}
    IN  IF hits = {} THEN [raises |-> TRUE, id |-> <<>>]
        ELSE [raises |-> FALSE,
              id |-> SubSeq(url, SetMin(hits) + 1, SetMin(hits) + 1)]

\* get_playlist_id_from_url (spotify_service.py lines 25-33): re.search
\* takes the leftmost "playlist/" that a character of [a-zA-Z0-9] follows,
\* and group(1) is the longest run of them; ValueError when there is none.
get_playlist_id_from_url(url) ==
    LET hits == {i \in 1..(Len(url) - 1) :
                    /\ url[i] = PlaylistSlash
                    /\ url[i + 1] \in Alnum}
    IN  IF hits = {} THEN [raises |-> TRUE, id |-> <<>>]
        ELSE [raises |-> FALSE,
              id |-> SubSeq(url, SetMin(hits) + 1,
                            AlnumRunEnd(url, SetMin(hits) + 1))]

\* ---- st.session_state ----
\* A stored result carries the number of the analysis that made it.
None == [run |-> 0, val |-> "None"]
Stored(run, val) == [run |-> run, val |-> val]

\* What the functions called by the handler come to.  analyze_playlist
\* returns a record on every path (gemini_service.py lines 313-500).
DetailOutcomes == {"details", "raises"}
TrackOutcomes == {"tracks", "empty", "raises"}
AnalyzeOutcomeKinds == {"record"}
RecOutcomeKinds == {"list", "raises"}

NoError == "None"

\* The Analyze Playlist handler for an accepted URL (app.py lines 238-305):
\* the session values, the messages shown and the functions called, for
\* what the called functions come to.
AnalyzeResult(url, run, d, t, a, r) ==
    LET id == get_playlist_id_from_url(url)
        Failed(msg, log) ==
            [data |-> None, details |-> None, analysis |-> None,
             recs |-> None, error |-> msg, shown |-> {"error"},
             log |-> log, id |-> id]
    IN  IF id.raises THEN Failed("An error occurred", <<>>)
        ELSE IF d = "raises"
        THEN Failed("An error occurred", <<"get_playlist_details">>)
        ELSE IF t = "raises"
        THEN Failed("An error occurred",
                    <<"get_playlist_details", "get_playlist_tracks">>)
        ELSE IF t = "empty"
        THEN Failed("Unable to fetch tracks from this playlist",
                    <<"get_playlist_details", "get_playlist_tracks">>)
        ELSE IF a = "raises"
        THEN [data |-> Stored(run, "tracks"),
              details |-> Stored(run, "details"),
              analysis |-> None, recs |-> None,
              error |-> "Error analyzing playlist",
              shown |-> {"error", "success"},
              log |-> <<"get_playlist_details", "get_playlist_tracks",
                        "analyze_playlist">>,
              id |-> id]
        ELSE [data |-> Stored(run, "tracks"),
              details |-> Stored(run, "details"),
              analysis |-> Stored(run, IF a = "empty" THEN "placeholder"
                                       ELSE "analysis"),
              recs |-> Stored(run, IF r = "raises" THEN "empty list"
                                   ELSE "recommendations"),
              error |-> NoError, shown |-> {"success"},
              log |-> <<"get_playlist_details", "get_playlist_tracks",
                        "analyze_playlist", "get_song_recommendations">>,
              id |-> id]

\* The URLs typed into the page.
ValidUrl == <<Host, PlaylistSlash, "a", "1", "?">>
AppUrls ==
    {ValidUrl, <<Host, PlaylistSlash, "a">>, <<Host, PlaylistSlash>>,
     <<"?", Host, PlaylistSlash, "a">>, <<"a", "1">>}

AppIdle ==
    /\ aPc = "idle"
    /\ playlist_url = <<>>
    /\ playlist_data = None
    /\ playlist_details = None
    /\ playlist_analysis = None
    /\ recommendations = None
    /\ processing_error = NoError
    /\ clear_url_input = FALSE
    /\ aRun = 0
    /\ aEvent = "none"
    /\ aShown = {}
    /\ aLog = <<>>
    /\ aValid = FALSE
    /\ aId = NoId

(***************************************************************************)
(* Charts: create_bpm_chart and create_instruments_chart                   *)
(* (visualization.py)                                                      *)
(***************************************************************************)
BpmWiden == 20
AxisMargin == 10
DisplayLimit == 7
MaxBpmStep == 6
MaxInstruments == 2

\* A dict in its insertion order, as .items() walks it: a sequence of
\* [name, freq], name a token sequence and freq a JSON value.
JDict(items) == [t |-> "dict", v |-> items]

Annotation(text) == [kind |-> "annotation", text |-> text]

\* int(x): [ok, val]; ok = FALSE stands for the ValueError or TypeError.
\* A str converts when it is digits with an optional sign, blanks around it
\* ignored.
PyInt(x) ==
    CASE IsNum(x) -> [ok |-> TRUE, val |-> x.v]
      [] x.t = "bool" -> [ok |-> TRUE, val |-> IF x.v THEN 1 ELSE 0]
      [] IsStr(x) ->
            LET s == Strip(x.v)
                signed == Len(s) >= 1 /\ s[1] \in {"-", "+"}
                ds == IF signed THEN Tail(s) ELSE s
            IN  IF ds # <<>> /\ \A i \in 1..Len(ds) : ds[i] \in Digits
                THEN [ok |-> TRUE,
                      val |-> IF signed /\ s[1] = "-"
                              THEN 0 - DigitsValue(ds) ELSE DigitsValue(ds)]
                ELSE [ok |-> FALSE, val |-> 0]
      [] OTHER -> [ok |-> FALSE, val |-> 0]

\* not bpm_data: None, False, 0 and the empty str, list and dict.
Falsy(x) ==
    CASE IsNull(x) -> TRUE
      [] x.t = "bool" -> ~x.v
      [] IsNum(x) -> x.v = 0
      [] IsStr(x) -> x.v = <<>>
      [] IsArr(x) -> x.v = <<>>
      [] IsObj(x) -> DOMAIN x.v = {}
      [] OTHER -> x.v = <<>>

\* Lines 44-46: if min_bpm == max_bpm, both move apart by 20, min not
\* below 0.
WidenEqual(lo, hi) ==
    IF lo = hi THEN [min |-> Max2(0, lo - BpmWiden), max |-> hi + BpmWiden]
    ELSE [min |-> lo, max |-> hi]

\* Lines 39-46 on the three integers.
AdjustBpm(min_bpm, max_bpm, most_common) ==
    LET lo == IF min_bpm > most_common THEN most_common - BpmWiden
              ELSE min_bpm
        hi == IF max_bpm < most_common THEN most_common + BpmWiden
              ELSE max_bpm
    IN  WidenEqual(lo, hi)

\* create_bpm_chart(bpm_data): the figure returned.
create_bpm_chart(bpm_data) ==
    IF Falsy(bpm_data) \/ ~IsObj(bpm_data)
    THEN Annotation("BPM data not available")
    ELSE LET mn == PyInt(Get(bpm_data, "min", JNum(0)))
             mx == PyInt(Get(bpm_data, "max", JNum(0)))
             mc == PyInt(Get(bpm_data, "most_common", JNum(0)))
         IN  IF ~(mn.ok /\ mx.ok /\ mc.ok)
             THEN Annotation("Unable to create tempo visualization")
             ELSE IF mn.val = 0 /\ mx.val = 0 /\ mc.val = 0
             THEN Annotation("Tempo information not available")
             ELSE LET adj == AdjustBpm(mn.val, mx.val, mc.val)
                      axisLo == IF adj.min > AxisMargin
                                THEN adj.min - AxisMargin ELSE 0
                  IN  [kind |-> "gauge",
                       value |-> mc.val,
                       min_bpm |-> adj.min,
                       max_bpm |-> adj.max,
                       axis |-> <<axisLo, adj.max + AxisMargin>>]

FreqLevel == [w \in {"high", "medium", "low"} |->
                 IF w = "high" THEN 3 ELSE IF w = "medium" THEN 2 ELSE 1]

\* The number a JSON number or bool compares as.
NumberOf(x) == IF x.t = "bool" THEN (IF x.v THEN 1 ELSE 0) ELSE x.v

\* Mutant: a number is taken whatever its size.
NormalizeFreqAnyNumber(freq) ==
    IF IsStr(freq) /\ Len(freq.v) = 1 /\ LowerWord(freq.v[1]) \in DOMAIN FreqLevel
    THEN [text |-> freq, numeric |-> JNum(FreqLevel[LowerWord(freq.v[1])])]
    ELSE IF freq.t \in {"num", "bool"}
    THEN [text |-> freq, numeric |-> freq]
    ELSE [text |-> S("medium"), numeric |-> JNum(2)]

\* Lines 207-214: the text and the number kept for one frequency.
NormalizeFreq(freq) ==
    IF IsStr(freq) /\ Len(freq.v) = 1 /\ LowerWord(freq.v[1]) \in DOMAIN FreqLevel
    THEN [text |-> freq, numeric |-> JNum(FreqLevel[LowerWord(freq.v[1])])]
    ELSE IF /\ freq.t \in {"num", "bool"}
            /\ 1 <= NumberOf(freq)
            /\ NumberOf(freq) <= 3
    THEN [text |-> freq, numeric |-> freq]
    ELSE [text |-> S("medium"), numeric |-> JNum(2)]

\* Lines 203-218: the rows kept, in the order of the dict.
InstrumentRows(items) ==
    LET named == SelectSeq(items, LAMBDA it : Strip(it.name) # <<>>)
    IN  [i \in 1..Len(named) |->
            [instrument |-> named[i].name,
             text |-> NormalizeFreq(named[i].freq).text,
             numeric |-> NormalizeFreq(named[i].freq).numeric]]

\* Lines 229-232: sorted(..., reverse=True) by the number; rows of equal
\* number keep their order.
SortByFrequency(rows) ==
    LET n == Len(rows)
        Before(j, i) ==
            \/ NumberOf(rows[j].numeric) > NumberOf(rows[i].numeric)
            \/ /\ NumberOf(rows[j].numeric) = NumberOf(rows[i].numeric)
               /\ j < i
        Rank(i) == 1 + Cardinality({j \in 1..n : Before(j, i)})
    IN  [k \in 1..n |-> rows[CHOOSE i \in 1..n : Rank(i) = k]]

\* create_instruments_chart(instruments_data): the figure returned.
create_instruments_chart(instruments_data) ==
    IF instruments_data.t # "dict" \/ instruments_data.v = <<>>
    THEN Annotation("Instrument data not available")
    ELSE LET rows == InstrumentRows(instruments_data.v)
         IN  IF rows = <<>>
             THEN Annotation("Instrument data not available")
             ELSE LET sorted == SortByFrequency(rows)
                      shown == SubSeq(sorted, 1,
                                      IF Len(sorted) < DisplayLimit
                                      THEN Len(sorted) ELSE DisplayLimit)
                  IN  [kind |-> "bar",
                       y |-> [i \in 1..Len(shown) |-> shown[i].instrument],
                       x |-> [i \in 1..Len(shown) |-> shown[i].numeric],
                       text |-> [i \in 1..Len(shown) |-> shown[i].text]]

\* ---- the inputs the charts are called with ----
BpmValues == {5 * k : k \in (0 - MaxBpmStep)..MaxBpmStep} \cup {-1, 1, 9, 11}
BpmKeys == <<"min", "max", "most_common">>
\* A bpm value given in the dict, or the key left out.
BpmChoices ==
    {[has |-> TRUE, val |-> JNum(v)] : v \in BpmValues}
        \cup {[has |-> FALSE, val |-> JNull]}
BpmDict(c) ==
    JObj([k \in {K(BpmKeys[i]) : i \in {j \in 1..3 : c[j].has}} |->
             c[CHOOSE i \in 1..3 : K(BpmKeys[i]) = k].val])
OddBpmValues ==
    {JStr(<<"1", "2", "0">>), JStr(<<" ", "-", "5">>), S("fast"), JStr(<<>>),
     JNull, JBool(TRUE), JArr(<<>>)}
BpmInputs ==
    {BpmDict(c) : c \in [1..3 -> BpmChoices]}
        \cup {SetKey(BpmDict([j \in 1..3 |-> [has |-> TRUE, val |-> JNum(100)]]),
                     BpmKeys[i], v) : i \in 1..3, v \in OddBpmValues}
        \cup {JNull, JArr(<<JNum(120)>>), S("fast"), JNum(0), JNum(120)}

InstrumentNames == <<"Guitar", "Piano", "Drums", "Bass", "Synthesizer",
                     "Vocals", "Sitar", "Tabla", "Flute">>
FreqValues ==
    {S("high"), S("medium"), S("low"), S("High"), S("HIGH"), S("Low"),
     S("loud"), JStr(<<>>), JStr(<<"very", " ", "high">>),
     JNum(0), JNum(1), JNum(2), JNum(3), JNum(4), JNum(-1),
     JBool(TRUE), JBool(FALSE), JNull, JObj(EmptyMap)}
\* The dict whose i-th value is freqs[i]; the key at blankAt is blank.
InstrumentDict(freqs, blankAt) ==
    JDict([i \in 1..Len(freqs) |->
             [name |-> IF i = blankAt THEN <<" ">> ELSE <<InstrumentNames[i]>>,
              freq |-> freqs[i]]])
LongInstrumentFreqs ==
    <<S("low"), S("High"), JNum(2), S("loud"), S("high"), JNum(1),
      S("medium"), JNum(3), S("Low")>>
InstrumentInputs ==
    {InstrumentDict(f, b) :
        f \in SeqsOf(FreqValues, 0, MaxInstruments), b \in 0..MaxInstruments}
        \cup {InstrumentDict(LongInstrumentFreqs, b) : b \in {0, 2}}
        \cup {JNull, JArr(<<S("Guitar")>>), S("lots"), JNum(7)}

\* ---- create_key_chart ----
MaxKeys == 2

\* A JSON number with a fraction, held in tenths: JFloat(25) is 2.5.
JFloat(tenths) == [t |-> "float", v |-> tenths]

\* isinstance(value, (int, float)): int, bool and float.
IsNumber(x) == x.t \in {"num", "bool", "float"}

\* The value x[1] of the sort compares by, in tenths.
Tenths(x) ==
    CASE x.t = "float" -> x.v
      [] x.t = "bool" -> IF x.v THEN 10 ELSE 0
      [] OTHER -> 10 * x.v

\* str.isdigit(): not empty and digits only.
IsDigitStr(x) ==
    IsStr(x) /\ x.v # <<>> /\ \A i \in 1..Len(x.v) : x.v[i] \in Digits

\* A digit string is left as the string and so counts as no number.
NormalizeCountNoConversion(value) ==
    IF IsNumber(value) THEN value ELSE JNum(1)

\* Lines 118-129: the count kept for one value of the dict.
NormalizeCount(value) ==
    LET v1 == IF IsDigitStr(value) THEN JNum(DigitsValue(value.v)) ELSE value
    IN  IF ~IsNumber(v1) THEN JNum(1) ELSE v1

\* Line 131: sorted(..., key=lambda x: x[1], reverse=True); pairs of equal
\* count keep their order.
SortByCount(pairs) ==
    LET n == Len(pairs)
        Before(j, i) ==
            \/ Tenths(pairs[j].value) > Tenths(pairs[i].value)
            \/ /\ Tenths(pairs[j].value) = Tenths(pairs[i].value)
               /\ j < i
        Rank(i) == 1 + Cardinality({j \in 1..n : Before(j, i)})
    IN  [k \in 1..n |-> pairs[CHOOSE i \in 1..n : Rank(i) = k]]

\* create_key_chart(key_data): the figure returned.
create_key_chart(key_data) ==
    IF key_data.t # "dict" \/ key_data.v = <<>>
    THEN Annotation("Key distribution data not available")
    ELSE LET pairs == [i \in 1..Len(key_data.v) |->
                          [key |-> key_data.v[i].name,
                           value |-> NormalizeCount(key_data.v[i].freq)]]
             sorted == SortByCount(pairs)
             shown == SubSeq(sorted, 1,
                             IF Len(sorted) < DisplayLimit
                             THEN Len(sorted) ELSE DisplayLimit)
         IN  [kind |-> "bar",
              x |-> [i \in 1..Len(shown) |-> shown[i].key],
              y |-> [i \in 1..Len(shown) |-> shown[i].value]]

KeyNames == <<"C Major", "G Major", "A Minor", "D Major", "E Minor",
              "F Major", "B Minor", "E Major", "D Minor">>
CountValues ==
    {JNum(-3), JNum(0), JNum(2), JNum(5), JFloat(25), JFloat(-5),
     JBool(TRUE), JStr(<<"4">>), JStr(<<"0", "7">>), JStr(<<"-", "3">>),
     JStr(<<"2", ".", "5">>), S("many"), JStr(<<>>), JNull, JArr(<<>>),
     JObj(EmptyMap)}
\* The dict whose i-th value is counts[i].
KeyDict(counts) ==
    JDict([i \in 1..Len(counts) |->
             [name |-> <<KeyNames[i]>>, freq |-> counts[i]]])
LongKeyCounts ==
    <<JNum(2), JStr(<<"4">>), S("many"), JNum(5), JNum(-3), JNum(2),
      JFloat(25), JNull, JNum(0)>>
KeyInputs ==
    {KeyDict(c) : c \in SeqsOf(CountValues, 0, MaxKeys)}
        \cup {KeyDict(LongKeyCounts)}
        \cup {JNull, JArr(<<S("C Major")>>), S("lots"), JNum(7)}

NoFigure == [kind |-> "none"]

VizIdle ==
    /\ vPc = "idle"
    /\ vizFn = "none"
    /\ vizIn = JNull
    /\ vizOut = NoFigure

(***************************************************************************)
(* Catalog client: get_playlist_tracks                                     *)
(***************************************************************************)
limit == 100
DefaultRetryAfter == 5
PageDelayMs == 500

MaxPages == 3     \* pages the catalog serves
Max429 == 2       \* rate-limit answers in one fetch

\* Sizes a served page may have: empty, short, and the full page.
PageSizes == {0, 1, 40, limit}
Patterns == {"ids", "mixed", "dups"}
\* The Retry-After header of a 429 answer: absent, a number of seconds, or
\* text int() cannot convert.
RetryAfterHeaders == {"absent", "1", "bad"}

\* The item at (1-based) position g of the playlist: what the catalog holds.
\* present = the item has a track; id = 0 stands for a missing or empty id.
\* Ids and titles are numbered; title 0 stands for the default 'N/A'.
ItemAt(g, pat) ==
    CASE pat = "ids" ->
           [present |-> TRUE, id |-> g, hasName |-> TRUE,
            artists |-> <<"a1">>]
      [] pat = "mixed" ->
           [present |-> (g % 3) # 0,
            id |-> IF (g % 3) = 2 THEN g ELSE 0,
            hasName |-> (g % 2) = 0,
            artists |-> IF (g % 2) = 0 THEN <<"a1", "a2">> ELSE <<>>]
      [] OTHER ->
           [present |-> TRUE, id |-> ((g - 1) % 2) + 1, hasName |-> TRUE,
            artists |-> <<"a1">>]

\* First position of page k in the playlist, minus one.
PageBase(sizes, k) == SumSeq(SubSeq(sizes, 1, k - 1))

\* sp.playlist_items(offset=off, limit=limit): the page the catalog serves.
Serve(sizes, pat, off) ==
    LET k == (off \div limit) + 1
    IN  IF k > Len(sizes)
        THEN [items |-> <<>>, next |-> FALSE]
        ELSE [items |-> [j \in 1..sizes[k] |->
                            ItemAt(PageBase(sizes, k) + j, pat)],
              next |-> k < Len(sizes)]

\* ', '.join(names): the names with the separator between them.
RECURSIVE JoinNames(_)
JoinNames(names) ==
    IF names = <<>> THEN <<>>
    ELSE IF Len(names) = 1 THEN <<names[1]>>
    ELSE <<names[1], ", ">> \o JoinNames(Tail(names))

\* Mutant: the record carries the release date of the album as well.
TrackRecordWithDate(t) ==
    [id |-> t.id,
     name |-> IF t.hasName THEN t.id ELSE 0,
     artist |-> JoinNames(t.artists),
     album |-> 0,
     duration_ms |-> 0,
     popularity |-> 0,
     release_date |-> <<"1", "9", "7", "7", "-", "0", "5">>]

\* The record appended for one track (lines 76-90).
TrackRecord(t) ==
    [id |-> t.id,
     name |-> IF t.hasName THEN t.id ELSE 0,
     artist |-> JoinNames(t.artists),
     album |-> 0,
     duration_ms |-> 0,
     popularity |-> 0]

\* Mutant: a track without an id is appended too.
KeepsTrackNoSkip(it) == it.present

\* Whether the loop body appends a record for the item (lines 70-74).
KeepsTrack(it) == it.present /\ it.id # 0

\* for item in items: ... all_tracks_data.append(...) (lines 69-90): the
\* records of the items the loop keeps, in order, appended to acc.
ProcessItems(items, acc) ==
    LET kept == SelectSeq(items, KeepsTrack)
    IN  acc \o [i \in 1..Len(kept) |-> TrackRecord(kept[i])]

\* int(e.headers.get('Retry-After', 5)) in seconds; -1 when int() raises.
RetryAfterSeconds(h) ==
    CASE h = "absent" -> DefaultRetryAfter
      [] h = "1" -> 1
      [] OTHER -> -1

FetchIdle ==
    /\ fPc = "idle"
    /\ pageSizes = <<>>
    /\ pattern = "ids"
    /\ offset = 0
    /\ all_tracks_data = <<>>
    /\ n429 = 0
    /\ reqLog = <<>>
    /\ servedCount = 0
    /\ lastSleep = 0

InitFetch ==
    /\ fPc = "start"
    /\ pageSizes \in SeqsOf(PageSizes, 1, MaxPages)
    /\ pattern \in Patterns
    /\ offset = 0
    /\ all_tracks_data = <<>>
    /\ n429 = 0
    /\ reqLog = <<>>
    /\ servedCount = 0
    /\ lastSleep = 0
    /\ LLMIdle
    /\ VizIdle
    /\ SetupIdle
    /\ AppIdle

\* sp = get_spotify_client() (line 49): the client or an exception.
FetchStart ==
    /\ UNCHANGED <<llmVars, vizVars, setupVars, appVars>>
    /\ fPc = "start"
    /\ \E ok \in BOOLEAN : fPc' = IF ok THEN "loop" ELSE "raised"
    /\ UNCHANGED <<pageSizes, pattern, offset, all_tracks_data, n429,
                   reqLog, servedCount, lastSleep>>

\* The next request starts one item early.
FetchPageOverlapping ==
    /\ UNCHANGED <<llmVars, vizVars, setupVars, appVars>>
    /\ fPc = "loop"
    /\ LET resp == Serve(pageSizes, pattern, offset)
       IN  /\ reqLog' = Append(reqLog, [offset |-> offset, status |-> "page"])
           /\ servedCount' = servedCount + Len(resp.items)
           /\ IF resp.items = <<>>
              THEN /\ fPc' = "done"
                   /\ UNCHANGED <<offset, all_tracks_data, lastSleep>>
              ELSE /\ all_tracks_data' =
                         ProcessItems(resp.items, all_tracks_data)
                   /\ IF resp.next
                      THEN /\ offset' = offset + limit - 1
                           /\ lastSleep' = PageDelayMs
                           /\ fPc' = "loop"
                      ELSE /\ fPc' = "done"
                           /\ UNCHANGED <<offset, lastSleep>>
    /\ UNCHANGED <<pageSizes, pattern, n429>>

\* One pass of the while loop whose request is answered with a page
\* (lines 54-97).
FetchPage ==
    /\ UNCHANGED <<llmVars, vizVars, setupVars, appVars>>
    /\ fPc = "loop"
    /\ LET resp == Serve(pageSizes, pattern, offset)
       IN  /\ reqLog' = Append(reqLog, [offset |-> offset, status |-> "page"])
           /\ servedCount' = servedCount + Len(resp.items)
           /\ IF resp.items = <<>>
              THEN /\ fPc' = "done"
                   /\ UNCHANGED <<offset, all_tracks_data, lastSleep>>
              ELSE /\ all_tracks_data' =
                         ProcessItems(resp.items, all_tracks_data)
                   /\ IF resp.next
                      THEN /\ offset' = offset + limit
                           /\ lastSleep' = PageDelayMs
                           /\ fPc' = "loop"
                      ELSE /\ fPc' = "done"
                           /\ UNCHANGED <<offset, lastSleep>>
    /\ UNCHANGED <<pageSizes, pattern, n429>>

\* The request is answered with no body or a body without 'items'
\* (lines 62-63).
FetchNoItems ==
    /\ UNCHANGED <<llmVars, vizVars, setupVars, appVars>>
    /\ fPc = "loop"
    /\ reqLog' = Append(reqLog, [offset |-> offset, status |-> "nobody"])
    /\ fPc' = "done"
    /\ UNCHANGED <<pageSizes, pattern, offset, all_tracks_data, n429,
                   servedCount, lastSleep>>

\* Mutant: the rate-limit handler moves on to the next page.
FetchRateLimitedAdvancing ==
    /\ UNCHANGED <<llmVars, vizVars, setupVars, appVars>>
    /\ fPc = "loop"
    /\ n429 < Max429
    /\ n429' = n429 + 1
    /\ reqLog' = Append(reqLog, [offset |-> offset, status |-> "429"])
    /\ offset' = offset + limit
    /\ lastSleep' = DefaultRetryAfter * 1000
    /\ UNCHANGED <<fPc, pageSizes, pattern, all_tracks_data, servedCount>>

\* The request raises SpotifyException with http_status 429 (lines 99-103).
FetchRateLimited ==
    /\ UNCHANGED <<llmVars, vizVars, setupVars, appVars>>
    /\ fPc = "loop"
    /\ n429 < Max429
    /\ n429' = n429 + 1
    /\ reqLog' = Append(reqLog, [offset |-> offset, status |-> "429"])
    /\ \E h \in RetryAfterHeaders :
         IF RetryAfterSeconds(h) < 0
         THEN /\ fPc' = "raised"
              /\ UNCHANGED lastSleep
         ELSE /\ fPc' = "loop"
              /\ lastSleep' = RetryAfterSeconds(h) * 1000
    /\ UNCHANGED <<pageSizes, pattern, offset, all_tracks_data, servedCount>>

\* The error is taken for a rate limit: the loop asks again.
FetchErrorRetried ==
    /\ UNCHANGED <<llmVars, vizVars, setupVars, appVars>>
    /\ fPc = "loop"
    /\ \E st \in {"404", "500", "exception"} :
         reqLog' = Append(reqLog, [offset |-> offset, status |-> st])
    /\ fPc' = "loop"
    /\ UNCHANGED <<pageSizes, pattern, offset, all_tracks_data, n429,
                   servedCount, lastSleep>>

\* The request raises SpotifyException with another status, or any other
\* exception (lines 104-107).
FetchError ==
    /\ UNCHANGED <<llmVars, vizVars, setupVars, appVars>>
    /\ fPc = "loop"
    /\ \E st \in {"404", "500", "exception"} :
         reqLog' = Append(reqLog, [offset |-> offset, status |-> st])
    /\ fPc' = "raised"
    /\ UNCHANGED <<pageSizes, pattern, offset, all_tracks_data, n429,
                   servedCount, lastSleep>>

\* A 429 once more, after the Max429 answers the history counts: the
\* handler sleeps and the loop asks again, as often as the catalog likes
\* (lines 51, 99-103; the loop keeps no count of its retries).
FetchRateLimitedOn ==
    /\ UNCHANGED <<llmVars, vizVars, setupVars, appVars>>
    /\ fPc = "loop"
    /\ n429 = Max429
    /\ \E h \in RetryAfterHeaders :
         IF RetryAfterSeconds(h) < 0
         THEN /\ fPc' = "raised"
              /\ UNCHANGED lastSleep
         ELSE /\ fPc' = "loop"
              /\ lastSleep' = RetryAfterSeconds(h) * 1000
    /\ UNCHANGED <<pageSizes, pattern, offset, all_tracks_data, n429, reqLog,
                   servedCount>>

NextFetch ==
    \/ FetchStart
    \/ FetchPage
    \/ FetchNoItems
    \/ FetchRateLimited
    \/ FetchRateLimitedOn
    \/ FetchError

SpecFetch == InitFetch /\ [][NextFetch]_vars

\* The loop goes on whenever it can: the interpreter runs the next pass.
\* Which answer the catalog gives is left to the catalog.
\* Pages of at most one item are enough for it: the loop does not look at
\* their length.
InitFetchLive ==
    /\ InitFetch
    /\ \A k \in 1..Len(pageSizes) : pageSizes[k] <= 1

SpecFetchLive == InitFetchLive /\ [][NextFetch]_vars /\ WF_vars(NextFetch)

(***************************************************************************)
(* The two functions as one state machine                                  *)
(***************************************************************************)
InitLLM ==
    /\ lPc = "start"
    /\ \/ /\ llmFn = "analyze"
          /\ tracksIn \in TrackCounts
          /\ analysisIn = JNull
       \/ /\ llmFn = "recommend"
          /\ tracksIn = 0
          /\ analysisIn \in AnalysisInputs
    /\ prompt = NoPrompt
    /\ attempt = 0
    /\ calls = 0
    /\ failures = 0
    /\ sawDecodeError = FALSE
    /\ lastPrompt = NoPrompt
    /\ lastReply = <<>>
    /\ lastOutcome = "none"
    /\ lastWait = NoWait
    /\ result = JNull
    /\ resultKind = "none"
    /\ FetchIdle
    /\ VizIdle
    /\ SetupIdle
    /\ AppIdle

\* Mutant: every attempt is taken for the last one.
IsLastAttemptAlways(att) == TRUE

\* attempt == max_retries - 1 (lines 441, 446, 624, 629)
IsLastAttempt(att) == att = MaxRetries - 1

\* Mutant: the wait grows by one second each attempt.
BackoffBaseLinear(att) == att + 1

\* 2 ** attempt of wait_time (lines 447, 630)
BackoffBase(att) == 2 ^ att

\* The outer except block (lines 455-478, 638-809): analyze_playlist
\* returns its fallback record; get_song_recommendations returns one of
\* its lists or raises.
GiveUp ==
    IF llmFn = "recommend" /\ HandlerRaises(analysisIn)
    THEN /\ lPc' = "raised"
         /\ UNCHANGED <<result, resultKind>>
    ELSE /\ lPc' = "done"
         /\ resultKind' = "fallback"
         /\ result' = IF llmFn = "analyze" THEN FallbackAnalysis
                      ELSE FallbackRecs(analysisIn)

\* The code before the retry loop (lines 313-383, 490-549): setup_gemini
\* returns a model or raises, and the prompt is built.
LLMStart ==
    /\ UNCHANGED <<fetchVars, vizVars, setupVars, appVars>>
    /\ lPc = "start"
    /\ \E setupOk \in BOOLEAN :
         IF \/ ~setupOk
            \/ /\ llmFn = "recommend"
               /\ DecadeScanRaises(analysisIn) \/ ProfileRaises(analysisIn)
         THEN /\ GiveUp
              /\ UNCHANGED prompt
         ELSE /\ lPc' = "attempt"
              /\ IF llmFn = "analyze"
                 THEN \E sample \in Samples(tracksIn) :
                        prompt' = [fn |-> "analyze", body |-> sample]
                 ELSE prompt' = [fn |-> "recommend",
                                 body |-> SimplifiedAnalysis(analysisIn)]
              /\ UNCHANGED <<result, resultKind>>
    /\ UNCHANGED <<llmFn, tracksIn, analysisIn, attempt, calls, failures,
                   sawDecodeError, lastPrompt, lastReply, lastOutcome,
                   lastWait>>

\* An attempt whose reply parses and validates: the value is returned
\* (lines 392-438, 558-617).
LLMReplyAccepted ==
    /\ UNCHANGED <<fetchVars, vizVars, setupVars, appVars>>
    /\ lPc = "attempt"
    /\ \E e \in OutcomesOf(llmFn) :
         /\ e.out.kind = "ok"
         /\ lastReply' = e.reply
         /\ result' = e.out.val
    /\ resultKind' = "parsed"
    /\ lPc' = "done"
    /\ calls' = calls + 1
    /\ lastPrompt' = prompt
    /\ lastOutcome' = "ok"
    /\ lastWait' = NoWait
    /\ UNCHANGED <<llmFn, tracksIn, analysisIn, prompt, attempt, failures,
                   sawDecodeError>>

\* An attempt whose reply raises JSONDecodeError (lines 439-442, 622-625):
\* the next attempt follows at once, or the last attempt gives up.
LLMReplyDecodeError ==
    /\ UNCHANGED <<fetchVars, vizVars, setupVars, appVars>>
    /\ lPc = "attempt"
    /\ \E e \in OutcomesOf(llmFn) :
         /\ e.out.kind = "decode_error"
         /\ lastReply' = e.reply
    /\ calls' = calls + 1
    /\ failures' = failures + 1
    /\ sawDecodeError' = TRUE
    /\ lastPrompt' = prompt
    /\ lastOutcome' = "decode_error"
    /\ lastWait' = NoWait
    /\ IF IsLastAttempt(attempt)
       THEN GiveUp /\ UNCHANGED attempt
       ELSE /\ attempt' = attempt + 1
            /\ UNCHANGED <<lPc, result, resultKind>>
    /\ UNCHANGED <<llmFn, tracksIn, analysisIn, prompt>>

\* An attempt that raises another exception (lines 444-453, 627-636):
\* generate_content fails, the parsed value is no dict, or no element of
\* the list is a mapping.  It sleeps and goes on, or the last one gives up.
LLMAttemptError ==
    /\ UNCHANGED <<fetchVars, vizVars, setupVars, appVars>>
    /\ lPc = "attempt"
    /\ \/ /\ lastReply' = <<>>
          /\ lastOutcome' = "generate_error"
       \/ /\ \E e \in OutcomesOf(llmFn) :
               /\ e.out.kind = "error"
               /\ lastReply' = e.reply
          /\ lastOutcome' = "error"
    /\ calls' = calls + 1
    /\ failures' = failures + 1
    /\ lastPrompt' = prompt
    /\ IF IsLastAttempt(attempt)
       THEN GiveUp /\ UNCHANGED <<attempt, lastWait>>
       ELSE /\ attempt' = attempt + 1
            /\ \E j \in JitterMs :
                 lastWait' = [base |-> BackoffBase(attempt), jitterMs |-> j]
            /\ UNCHANGED <<lPc, result, resultKind>>
    /\ UNCHANGED <<llmFn, tracksIn, analysisIn, prompt, sawDecodeError>>

NextLLM ==
    \/ LLMStart
    \/ LLMReplyAccepted
    \/ LLMReplyDecodeError
    \/ LLMAttemptError

SpecLLM == InitLLM /\ [][NextLLM]_vars

(***************************************************************************)
(* The charts as a state machine                                           *)
(***************************************************************************)
InitViz ==
    /\ vPc = "start"
    /\ \/ vizFn = "bpm" /\ vizIn \in BpmInputs
       \/ vizFn = "instruments" /\ vizIn \in InstrumentInputs
       \/ vizFn = "keys" /\ vizIn \in KeyInputs
    /\ vizOut = NoFigure
    /\ FetchIdle
    /\ LLMIdle
    /\ SetupIdle
    /\ AppIdle

VizBpmChart ==
    /\ UNCHANGED <<fetchVars, llmVars, setupVars, appVars>>
    /\ vPc = "start"
    /\ vizFn = "bpm"
    /\ vizOut' = create_bpm_chart(vizIn)
    /\ vPc' = "done"
    /\ UNCHANGED <<vizFn, vizIn>>

VizInstrumentsChart ==
    /\ UNCHANGED <<fetchVars, llmVars, setupVars, appVars>>
    /\ vPc = "start"
    /\ vizFn = "instruments"
    /\ vizOut' = create_instruments_chart(vizIn)
    /\ vPc' = "done"
    /\ UNCHANGED <<vizFn, vizIn>>

VizKeyChart ==
    /\ UNCHANGED <<fetchVars, llmVars, setupVars, appVars>>
    /\ vPc = "start"
    /\ vizFn = "keys"
    /\ vizOut' = create_key_chart(vizIn)
    /\ vPc' = "done"
    /\ UNCHANGED <<vizFn, vizIn>>

NextViz ==
    \/ VizBpmChart
    \/ VizInstrumentsChart
    \/ VizKeyChart

SpecViz == InitViz /\ [][NextViz]_vars

(***************************************************************************)
(* setup_gemini and the generate_content calls of one session              *)
(***************************************************************************)
InitSetup ==
    /\ sPc = "call"
    /\ sEnv \in SetupEnvs
    /\ sModel = NoModel
    /\ sProbes = <<>>
    /\ sSetups = 0
    /\ sPrev = NoGeneration
    /\ sLast = NoGeneration
    /\ FetchIdle
    /\ LLMIdle
    /\ VizIdle
    /\ AppIdle

\* model = setup_gemini() at the head of analyze_playlist (line 315) and
\* of get_song_recommendations (line 503).
SetupGemini ==
    /\ UNCHANGED <<fetchVars, llmVars, vizVars, appVars>>
    /\ sPc = "call"
    /\ LET r == setup_gemini(sEnv)
       IN  /\ sPc' = IF r.raises THEN "raised" ELSE "held"
           /\ sModel' = r.model
           /\ sProbes' = r.probes
    /\ sSetups' = sSetups + 1
    /\ UNCHANGED <<sEnv, sPrev, sLast>>

\* response = model.generate_content(prompt, ...); response.text (lines
\* 388-392, 554-558) on the FallbackModel.
GenerateOnFallback ==
    /\ UNCHANGED <<fetchVars, llmVars, vizVars, appVars>>
    /\ sPc = "held"
    /\ sModel = FallbackModel
    /\ \E o \in FallbackOutcomes :
         /\ o.hash = sEnv.hash
         /\ sLast' = [prompt |-> o.prompt, raises |-> o.out.raises,
                      text |-> o.out.text]
    /\ sPrev' = sLast
    /\ UNCHANGED <<sPc, sEnv, sModel, sProbes, sSetups>>

\* The same call on a model of the service: its text is left open.
GenerateOnModel ==
    /\ UNCHANGED <<fetchVars, llmVars, vizVars, appVars>>
    /\ sPc = "held"
    /\ sModel.kind = "real"
    /\ \E p \in SetupPrompts :
         sLast' = [prompt |-> p, raises |-> FALSE, text |-> <<"reply">>]
    /\ sPrev' = sLast
    /\ UNCHANGED <<sPc, sEnv, sModel, sProbes, sSetups>>

\* analyze_playlist or get_song_recommendations returns; its `model` is
\* dropped, and the next of the two calls may start.
CallReturns ==
    /\ UNCHANGED <<fetchVars, llmVars, vizVars, appVars>>
    /\ sPc \in {"held", "raised"}
    /\ sSetups < MaxSetups
    /\ sPc' = "call"
    /\ sModel' = NoModel
    /\ UNCHANGED <<sEnv, sProbes, sSetups, sPrev, sLast>>

NextSetup ==
    \/ SetupGemini
    \/ GenerateOnFallback
    \/ GenerateOnModel
    \/ CallReturns

SpecSetup == InitSetup /\ [][NextSetup]_vars

(***************************************************************************)
(* The page: one action per handled button                                 *)
(***************************************************************************)
\* Lines 72-84.
InitApp ==
    /\ aPc = "ready"
    /\ playlist_url = <<>>
    /\ playlist_data = None
    /\ playlist_details = None
    /\ playlist_analysis = None
    /\ recommendations = None
    /\ processing_error = NoError
    /\ clear_url_input = FALSE
    /\ aRun = 0
    /\ aEvent = "none"
    /\ aShown = {}
    /\ aLog = <<>>
    /\ aValid = FALSE
    /\ aId = NoId
    /\ FetchIdle
    /\ LLMIdle
    /\ VizIdle
    /\ SetupIdle

\* Analyze Playlist with nothing typed: `if playlist_url and
\* analyze_button` (line 234) is false and the script does nothing.
AnalyzeEmptyInput ==
    /\ UNCHANGED <<fetchVars, llmVars, vizVars, setupVars>>
    /\ aPc = "ready"
    /\ playlist_url' = <<>>
    /\ aEvent' = "analyze"
    /\ aShown' = {}
    /\ aLog' = <<>>
    /\ aValid' = FALSE
    /\ aId' = NoId
    /\ UNCHANGED <<aPc, playlist_data, playlist_details, playlist_analysis,
                   recommendations, processing_error, clear_url_input, aRun>>

\* Analyze Playlist with a URL validate_spotify_url rejects (lines 235-236).
AnalyzeInvalidUrl ==
    /\ UNCHANGED <<fetchVars, llmVars, vizVars, setupVars>>
    /\ aPc = "ready"
    /\ \E url \in AppUrls :
         /\ ~validate_spotify_url(url)
         /\ playlist_url' = url
    /\ aEvent' = "analyze"
    /\ aShown' = {"validation"}
    /\ aLog' = <<>>
    /\ aValid' = FALSE
    /\ aId' = NoId
    /\ UNCHANGED <<aPc, playlist_data, playlist_details, playlist_analysis,
                   recommendations, processing_error, clear_url_input, aRun>>

\* Analyze Playlist with an accepted URL (lines 237-305).
AnalyzeValidUrl ==
    /\ UNCHANGED <<fetchVars, llmVars, vizVars, setupVars>>
    /\ aPc = "ready"
    /\ aRun < MaxRuns
    /\ aRun' = aRun + 1
    /\ \E url \in AppUrls, d \in DetailOutcomes, t \in TrackOutcomes,
          a \in AnalyzeOutcomeKinds, r \in RecOutcomeKinds :
         /\ validate_spotify_url(url)
         /\ playlist_url' = url
         /\ LET res == AnalyzeResult(url, aRun + 1, d, t, a, r)
            IN  /\ playlist_data' = res.data
                /\ playlist_details' = res.details
                /\ playlist_analysis' = res.analysis
                /\ recommendations' = res.recs
                /\ processing_error' = res.error
                /\ aShown' = res.shown
                /\ aLog' = res.log
                /\ aId' = res.id
    /\ aEvent' = "analyze"
    /\ aValid' = TRUE
    /\ UNCHANGED <<aPc, clear_url_input>>

\* Mutant: Clear Analysis leaves the recommendations.
ClearAnalysisKeepsRecommendations ==
    /\ UNCHANGED <<fetchVars, llmVars, vizVars, setupVars>>
    /\ aPc = "ready"
    /\ processing_error' = NoError
    /\ playlist_data' = None
    /\ playlist_details' = None
    /\ playlist_analysis' = None
    /\ playlist_url' = <<>>
    /\ clear_url_input' = FALSE
    /\ aEvent' = "clear_analysis"
    /\ aShown' = {}
    /\ aLog' = <<>>
    /\ UNCHANGED <<aPc, recommendations, aRun, aValid, aId>>

\* Clear Analysis (lines 223-232); the rerun shows the input empty and
\* takes the flag back (lines 203-209).
ClearAnalysis ==
    /\ UNCHANGED <<fetchVars, llmVars, vizVars, setupVars>>
    /\ aPc = "ready"
    /\ processing_error' = NoError
    /\ playlist_data' = None
    /\ playlist_details' = None
    /\ playlist_analysis' = None
    /\ recommendations' = None
    /\ playlist_url' = <<>>
    /\ clear_url_input' = FALSE
    /\ aEvent' = "clear_analysis"
    /\ aShown' = {}
    /\ aLog' = <<>>
    /\ UNCHANGED <<aPc, aRun, aValid, aId>>

\* Clear Error (lines 196-200): the button is there while an error is set.
ClearError ==
    /\ UNCHANGED <<fetchVars, llmVars, vizVars, setupVars>>
    /\ aPc = "ready"
    /\ processing_error # NoError
    /\ processing_error' = NoError
    /\ aEvent' = "clear_error"
    /\ aShown' = {}
    /\ aLog' = <<>>
    /\ UNCHANGED <<aPc, playlist_url, playlist_data, playlist_details,
                   playlist_analysis, recommendations, clear_url_input,
                   aRun, aValid, aId>>

NextApp ==
    \/ AnalyzeEmptyInput
    \/ AnalyzeInvalidUrl
    \/ AnalyzeValidUrl
    \/ ClearAnalysis
    \/ ClearError

SpecApp == InitApp /\ [][NextApp]_vars

\* ---- the two URL functions on their own ----
Urls == SeqsOf(UrlTokens, 0, MaxUrlLen)

InitUrl ==
    /\ aPc = "url"
    /\ playlist_url \in Urls
    /\ playlist_data = None
    /\ playlist_details = None
    /\ playlist_analysis = None
    /\ recommendations = None
    /\ processing_error = NoError
    /\ clear_url_input = FALSE
    /\ aRun = 0
    /\ aEvent = "none"
    /\ aShown = {}
    /\ aLog = <<>>
    /\ aValid = FALSE
    /\ aId = NoId
    /\ FetchIdle
    /\ LLMIdle
    /\ VizIdle
    /\ SetupIdle

ResolveUrl ==
    /\ UNCHANGED <<fetchVars, llmVars, vizVars, setupVars>>
    /\ aPc = "url"
    /\ aPc' = "resolved"
    /\ aValid' = validate_spotify_url(playlist_url)
    /\ aId' = get_playlist_id_from_url(playlist_url)
    /\ UNCHANGED <<playlist_url, playlist_data, playlist_details,
                   playlist_analysis, recommendations, processing_error,
                   clear_url_input, aRun, aEvent, aShown, aLog>>

NextUrl == ResolveUrl

SpecUrl == InitUrl /\ [][NextUrl]_vars

\* ---- the Analyze Playlist handler call by call ----
\* The handler of an accepted URL as the steps of one script run: aPc says
\* which function the script is waiting in, aLog holds the calls made.
InitRun ==
    /\ aPc = "ready"
    /\ playlist_url = <<>>
    /\ playlist_data = None
    /\ playlist_details = None
    /\ playlist_analysis = None
    /\ recommendations = None
    /\ processing_error = NoError
    /\ clear_url_input = FALSE
    /\ aRun = 0
    /\ aEvent = "none"
    /\ aShown = {}
    /\ aLog = <<>>
    /\ aValid = FALSE
    /\ aId = NoId
    /\ FetchIdle
    /\ LLMIdle
    /\ VizIdle
    /\ SetupIdle

\* The outer except block (lines 301-305), and the else branch of the
\* track test (297-300): the message is stored and shown, the run ends.
RunFails(msg) ==
    /\ processing_error' = msg
    /\ aShown' = {"error"}
    /\ aPc' = "ready"

\* Lines 238-251: the results of the run before are unset, the id is cut
\* from the URL and get_playlist_details is called.
RunStart ==
    /\ UNCHANGED <<fetchVars, llmVars, vizVars, setupVars>>
    /\ aPc = "ready"
    /\ aRun < MaxRuns
    /\ aRun' = aRun + 1
    /\ \E url \in AppUrls :
         /\ validate_spotify_url(url)
         /\ playlist_url' = url
         /\ aId' = get_playlist_id_from_url(url)
    /\ playlist_data' = None
    /\ playlist_details' = None
    /\ playlist_analysis' = None
    /\ recommendations' = None
    /\ aEvent' = "analyze"
    /\ aValid' = TRUE
    /\ IF aId'.raises
       THEN /\ RunFails("An error occurred")
            /\ aLog' = <<>>
       ELSE /\ processing_error' = NoError
            /\ aShown' = {}
            /\ aLog' = <<"get_playlist_details">>
            /\ aPc' = "in_details"
    /\ UNCHANGED clear_url_input

\* get_playlist_details returns or raises (line 251); after it
\* get_playlist_tracks is called (252).
DetailsReturn ==
    /\ UNCHANGED <<fetchVars, llmVars, vizVars, setupVars>>
    /\ aPc = "in_details"
    /\ \E d \in DetailOutcomes :
         IF d = "raises"
         THEN /\ RunFails("An error occurred")
              /\ UNCHANGED aLog
         ELSE /\ aPc' = "in_tracks"
              /\ aLog' = Append(aLog, "get_playlist_tracks")
              /\ UNCHANGED <<processing_error, aShown>>
    /\ UNCHANGED <<playlist_url, playlist_data, playlist_details,
                   playlist_analysis, recommendations, clear_url_input,
                   aRun, aEvent, aValid, aId>>

\* Mutant: analyze_playlist is called with an empty track list too.
TracksReturnAnalyzesEmpty ==
    /\ UNCHANGED <<fetchVars, llmVars, vizVars, setupVars>>
    /\ aPc = "in_tracks"
    /\ \E t \in TrackOutcomes :
         IF t = "raises"
         THEN /\ RunFails("An error occurred")
              /\ UNCHANGED <<aLog, playlist_data, playlist_details>>
         ELSE /\ playlist_data' = Stored(aRun, t)
              /\ playlist_details' = Stored(aRun, "details")
              /\ aPc' = "in_analyze"
              /\ aLog' = Append(aLog, "analyze_playlist")
              /\ UNCHANGED <<processing_error, aShown>>
    /\ UNCHANGED <<playlist_url, playlist_analysis, recommendations,
                   clear_url_input, aRun, aEvent, aValid, aId>>

\* get_playlist_tracks returns or raises (line 252).  A list that is not
\* empty is stored with the details and analyze_playlist is called
\* (254-263); an empty list ends the run with the message of line 297.
TracksReturn ==
    /\ UNCHANGED <<fetchVars, llmVars, vizVars, setupVars>>
    /\ aPc = "in_tracks"
    /\ \E t \in TrackOutcomes :
         IF t = "raises"
         THEN /\ RunFails("An error occurred")
              /\ UNCHANGED <<aLog, playlist_data, playlist_details>>
         ELSE IF t = "empty"
         THEN /\ RunFails("Unable to fetch tracks from this playlist")
              /\ UNCHANGED <<aLog, playlist_data, playlist_details>>
         ELSE /\ playlist_data' = Stored(aRun, "tracks")
              /\ playlist_details' = Stored(aRun, "details")
              /\ aPc' = "in_analyze"
              /\ aLog' = Append(aLog, "analyze_playlist")
              /\ UNCHANGED <<processing_error, aShown>>
    /\ UNCHANGED <<playlist_url, playlist_analysis, recommendations,
                   clear_url_input, aRun, aEvent, aValid, aId>>

\* analyze_playlist returns its record (line 263), the record is stored
\* and get_song_recommendations is called with it (264-282).
AnalyzeReturn ==
    /\ UNCHANGED <<fetchVars, llmVars, vizVars, setupVars>>
    /\ aPc = "in_analyze"
    /\ \E a \in AnalyzeOutcomeKinds :
         IF a = "raises"
         THEN /\ processing_error' = "Error analyzing playlist"
              /\ aShown' = {"error", "success"}
              /\ aPc' = "ready"
              /\ UNCHANGED <<aLog, playlist_analysis>>
         ELSE /\ playlist_analysis' =
                    Stored(aRun, IF a = "empty" THEN "placeholder"
                                 ELSE "analysis")
              /\ aPc' = "in_recommend"
              /\ aLog' = Append(aLog, "get_song_recommendations")
              /\ UNCHANGED <<processing_error, aShown>>
    /\ UNCHANGED <<playlist_url, playlist_data, playlist_details,
                   recommendations, clear_url_input, aRun, aEvent, aValid,
                   aId>>

\* get_song_recommendations returns its list or raises (lines 279-287):
\* the list, or an empty one, is stored and the run ends with the success
\* message (294-295).
RecommendReturn ==
    /\ UNCHANGED <<fetchVars, llmVars, vizVars, setupVars>>
    /\ aPc = "in_recommend"
    /\ \E r \in RecOutcomeKinds :
         recommendations' = Stored(aRun, IF r = "raises" THEN "empty list"
                                         ELSE "recommendations")
    /\ aShown' = {"success"}
    /\ aPc' = "ready"
    /\ UNCHANGED <<playlist_url, playlist_data, playlist_details,
                   playlist_analysis, processing_error, clear_url_input,
                   aRun, aEvent, aLog, aValid, aId>>

\* Between two runs the other buttons of the page are there as well.
NextRun ==
    \/ RunStart
    \/ DetailsReturn
    \/ TracksReturn
    \/ AnalyzeReturn
    \/ RecommendReturn
    \/ AnalyzeEmptyInput
    \/ AnalyzeInvalidUrl
    \/ ClearAnalysis
    \/ ClearError

SpecRun == InitRun /\ [][NextRun]_vars

(***************************************************************************)
(* Claims about get_playlist_tracks                                        *)
(***************************************************************************)
\* Every response so far was a page (no error, no missing body).
OnlyPages == \A i \in 1..Len(reqLog) : reqLog[i].status = "page"

HasId(it) == it.present /\ it.id # 0

\* The items delivered so far that have a track with a non-empty id.
IdentifiedServed ==
    SelectSeq([g \in 1..servedCount |-> ItemAt(g, pattern)], HasId)

\* C1: when every request is answered with a page, the returned list holds
\* exactly one record per served item whose track has a non-empty id, in
\* the order served; when no page is empty every item of the playlist is
\* served, and pages of 100/100/40 identified items give 240 records in
\* the original order.
C1_OneRecordPerIdentifiedItem ==
    (fPc = "done" /\ OnlyPages) =>
        /\ Len(all_tracks_data) = Len(IdentifiedServed)
        /\ \A i \in 1..Len(all_tracks_data) :
               all_tracks_data[i].id = IdentifiedServed[i].id
        /\ (\A k \in 1..Len(pageSizes) : pageSizes[k] > 0) =>
               servedCount = SumSeq(pageSizes)
        /\ (pageSizes = <<100, 100, 40>> /\ pattern = "ids") =>
               /\ Len(all_tracks_data) = 240
               /\ \A i \in 1..240 : all_tracks_data[i].id = i

\* C1 witness: three pages of a playlist with local files and removed
\* tracks were fetched; 80 of the 240 items are identified.
C1_Witness ==
    /\ fPc = "done" /\ OnlyPages
    /\ pageSizes = <<limit, limit, 40>> /\ pattern = "mixed"
    /\ servedCount = 240
    /\ Len(all_tracks_data) = 80

\* The fetch of the same catalog when no request is rate limited.
RECURSIVE NoRateLimitRun(_, _, _, _)
NoRateLimitRun(sizes, pat, off, acc) ==
    LET resp == Serve(sizes, pat, off)
    IN  IF resp.items = <<>> THEN acc
        ELSE IF resp.next
             THEN NoRateLimitRun(sizes, pat, off + limit,
                                 ProcessItems(resp.items, acc))
             ELSE ProcessItems(resp.items, acc)

\* C2: the request after a 429 asks for the same offset again, and a fetch
\* that was rate limited one or more times returns the list the fetch
\* without rate limiting returns.
C2_RateLimitTransparent ==
    /\ \A i \in 1..(Len(reqLog) - 1) :
           reqLog[i].status = "429" => reqLog[i + 1].offset = reqLog[i].offset
    /\ (fPc = "done" /\ n429 > 0
          /\ \A i \in 1..Len(reqLog) : reqLog[i].status \in {"page", "429"})
         => all_tracks_data = NoRateLimitRun(pageSizes, pattern, 0, <<>>)

\* C2 witness: the second page was rate limited twice and the fetch went on
\* to return more than one page of tracks.
C2_Witness ==
    /\ fPc = "done" /\ n429 = 2
    /\ Len(reqLog) >= 4
    /\ reqLog[2].status = "429" /\ reqLog[2].offset = limit
    /\ reqLog[3].status = "429"
    /\ reqLog[4].status = "page"
    /\ Len(all_tracks_data) > limit

(***************************************************************************)
(* Claims about analyze_playlist and get_song_recommendations              *)
(***************************************************************************)
AnalyzeReturned == llmFn = "analyze" /\ lPc = "done"
RecommendReturned == llmFn = "recommend" /\ lPc = "done"
\* What json.loads made of the last reply, when the reply was accepted.
ParsedAnalysis == JsonLoads(AnalysisText(lastReply)).val
ParsedRecs == JsonLoads(RecText(lastReply)).val
MappingFields == {"bpm_range", "instruments", "key_distribution"}

\* C3: analyze_playlist never raises, and the record it returns has the six
\* mandatory keys, with a string under each of the three text fields and a
\* mapping under each of the three mapping fields.  The code breaks it: a
\* field the reply holds with a value of another type is returned as it is.
C3_FullyTypedRecord ==
    llmFn = "analyze" =>
        /\ lPc # "raised"
        /\ lPc = "done" =>
              /\ IsObj(result)
              /\ \A i \in 1..Len(RequiredFields) :
                    HasKey(result, RequiredFields[i])
              /\ \A f \in TextFields : IsStr(Get(result, f, JNull))
              /\ \A f \in MappingFields : IsObj(Get(result, f, JNull))

\* C4: once a reply has failed to parse, the function goes on to a new call
\* with the same prompt, and it ends without a parsed reply (the fallback
\* record or list) only when all MaxRetries calls were made and failed.
C4_FallbackOnlyAfterAllAttempts ==
    /\ (lastOutcome = "decode_error" /\ calls < MaxRetries) =>
          /\ lPc = "attempt"
          /\ attempt = calls
          /\ resultKind = "none"
    /\ calls > 0 => lastPrompt = prompt /\ prompt.fn = llmFn
    /\ (sawDecodeError /\ lPc \in {"done", "raised"}
            /\ resultKind # "parsed") =>
          /\ calls = MaxRetries
          /\ failures = MaxRetries
    /\ (sawDecodeError /\ resultKind = "fallback") =>
          IF llmFn = "analyze" THEN result = FallbackAnalysis
          ELSE result \in {BollywoodRecs, ElectronicRecs, DefaultRecs}

\* A reply failed to parse on each of the first four attempts and on the
\* fifth too, and the fallback was returned.
C4_Witness ==
    /\ sawDecodeError
    /\ lastOutcome = "decode_error"
    /\ resultKind = "fallback"
    /\ calls = MaxRetries
    /\ llmFn = "recommend"

\* C5: every element of a list get_song_recommendations returns is a
\* mapping with a value other than null under each of title, artist,
\* reasoning, attributes and spotify_url.  The code breaks it: a key the
\* reply holds with null counts as present and is not filled.
C5_NoNullFields ==
    RecommendReturned =>
        /\ IsArr(result)
        /\ \A i \in 1..Len(result.v) :
              /\ IsObj(result.v[i])
              /\ \A j \in 1..Len(RecFields) :
                    /\ HasKey(result.v[i], RecFields[j])
                    /\ ~IsNull(result.v[i].v[K(RecFields[j])])

\* The positions of the mappings in a list, in ascending order.
MappingPositions(arr) ==
    LET F[i \in 0..Len(arr)] ==
            IF i = 0 THEN <<>>
            ELSE IF IsObj(arr[i]) THEN Append(F[i - 1], i) ELSE F[i - 1]
    IN  F[Len(arr)]

\* C6: the list returned from a parsed reply holds the mappings of the
\* parsed array, in their order, and nothing else; each with its own keys
\* and values unchanged, and with every required key it lacked set to
\* "Not specified", or to the empty mapping for attributes.
C6_MappingsKeptAndFilled ==
    (RecommendReturned /\ resultKind = "parsed") =>
        LET arr == ParsedRecs.v
            pos == MappingPositions(arr)
        IN  /\ IsArr(result)
            /\ Len(result.v) = Len(pos)
            /\ \A k \in 1..Len(pos) :
                  LET e == arr[pos[k]]
                      r == result.v[k]
                  IN  /\ IsObj(r)
                      /\ DOMAIN r.v =
                            DOMAIN e.v
                               \cup {K(RecFields[j]) : j \in 1..Len(RecFields)}
                      /\ \A key \in DOMAIN e.v : r.v[key] = e.v[key]
                      /\ \A j \in 1..Len(RecFields) :
                            ~HasKey(e, RecFields[j]) =>
                               r.v[K(RecFields[j])] =
                                  IF RecFields[j] = "attributes"
                                  THEN JObj(EmptyMap)
                                  ELSE S("Not specified")

\* A list with two elements that are no mapping between two mappings that
\* lack four keys each was parsed, and the two mappings were returned.
C6_Witness ==
    /\ RecommendReturned
    /\ resultKind = "parsed"
    /\ lastReply = TArr(<<TitleA, TInt(5), TStr("x"), TitleB>>)
    /\ Len(result.v) = 2
    /\ result.v[2].v[K("title")] = S("B")
    /\ result.v[2].v[K("attributes")] = JObj(EmptyMap)

\* The neutral defaults, as literals.
TextDefault == S("Analysis incomplete")
BpmDefaults ==
    [k \in {K("min"), K("most_common"), K("max")} |->
        IF k = K("min") THEN JNum(80)
        ELSE IF k = K("most_common") THEN JNum(120) ELSE JNum(160)]

\* C7: in the record returned from a parsed reply, every mandatory key the
\* parsed object lacked has its default ("Analysis incomplete" for a text
\* field, the empty mapping for instruments and key_distribution), every
\* other key but bpm_range has the value it was parsed with, and a
\* bpm_range that was absent or a mapping has min, most_common and max,
\* each 80, 120, 160 where the reply had none and unchanged where it had.
C7_AbsentKeysDefaulted ==
    (AnalyzeReturned /\ resultKind = "parsed") =>
        LET p == ParsedAnalysis
            b == Get(p, "bpm_range", JObj(EmptyMap))
            rb == Get(result, "bpm_range", JNull)
        IN  /\ IsObj(result)
            /\ DOMAIN result.v =
                  DOMAIN p.v
                     \cup {K(RequiredFields[i]) : i \in 1..Len(RequiredFields)}
            /\ \A key \in DOMAIN p.v \ {K("bpm_range")} :
                  result.v[key] = p.v[key]
            /\ \A f \in TextFields :
                  ~HasKey(p, f) => result.v[K(f)] = TextDefault
            /\ \A f \in {"instruments", "key_distribution"} :
                  ~HasKey(p, f) => result.v[K(f)] = JObj(EmptyMap)
            /\ IF IsObj(b)
               THEN /\ IsObj(rb)
                    /\ DOMAIN rb.v = DOMAIN b.v \cup DOMAIN BpmDefaults
                    /\ \A k \in DOMAIN rb.v :
                          rb.v[k] = IF k \in DOMAIN b.v THEN b.v[k]
                                    ELSE BpmDefaults[k]
               ELSE rb = b

\* The reply of the example, general_description = x alone inside a json
\* fence, was returned as x plus every default.
C7_Witness ==
    /\ AnalyzeReturned
    /\ resultKind = "parsed"
    /\ lastReply = FencedExample
    /\ result =
          JObj([k \in {K(RequiredFields[i]) : i \in 1..Len(RequiredFields)} |->
                  IF k = K("general_description") THEN S("x")
                  ELSE IF k = K("bpm_range") THEN JObj(BpmDefaults)
                  ELSE IF k \in {K("mood_description"), K("genre_analysis")}
                  THEN TextDefault
                  ELSE JObj(EmptyMap)])

\* min <= most_common <= max in a bpm_range holding three numbers.
BpmOrdered(b) ==
    /\ b.v[K("min")].v <= b.v[K("most_common")].v
    /\ b.v[K("most_common")].v <= b.v[K("max")].v
ThreeNumbers(b) ==
    /\ IsObj(b)
    /\ \A k \in DOMAIN BpmDefaults : k \in DOMAIN b.v /\ IsNum(b.v[k])

\* C8 as stated: the bpm_range of every record analyze_playlist returns has
\* min <= most_common <= max, whatever numbers the reply held.
C8_ReturnedBpmOrdered ==
    (AnalyzeReturned /\ ThreeNumbers(Get(result, "bpm_range", JNull))) =>
        BpmOrdered(result.v[K("bpm_range")])

\* C8 as amended: the bpm_range of the returned record has
\* min <= most_common <= max when the record is the fallback record or the
\* reply held none of the three values; every number the reply did hold is
\* returned as it was, in whatever order.
C8_BpmOrderedWhenDefaulted ==
    AnalyzeReturned =>
        LET rb == Get(result, "bpm_range", JNull)
        IN  /\ resultKind = "fallback" => ThreeNumbers(rb) /\ BpmOrdered(rb)
            /\ resultKind = "parsed" =>
                  LET b == Get(ParsedAnalysis, "bpm_range", JObj(EmptyMap))
                  IN  /\ (IsObj(b) /\ DOMAIN b.v \cap DOMAIN BpmDefaults = {})
                            => ThreeNumbers(rb) /\ BpmOrdered(rb)
                      /\ IsObj(b) =>
                            \A k \in DOMAIN b.v :
                               k \in DOMAIN rb.v /\ rb.v[k] = b.v[k]

\* A reply with max below most_common below min was returned unordered.
C8_Witness ==
    /\ AnalyzeReturned
    /\ resultKind = "parsed"
    /\ ThreeNumbers(Get(result, "bpm_range", JNull))
    /\ result.v[K("bpm_range")].v[K("min")] = JNum(200)
    /\ result.v[K("bpm_range")].v[K("max")] = JNum(100)

(***************************************************************************)
(* Claims about the charts                                                 *)
(***************************************************************************)
\* C9: for every bpm dict of three integers that are not all zero, the
\* values create_bpm_chart plots have min <= most_common <= max.  The code
\* breaks it for three equal negative values: min is clamped to 0, above
\* most_common.
C9_PlottedBpmOrdered ==
    (vizFn = "bpm" /\ vPc = "done" /\ ThreeNumbers(vizIn)
        /\ vizOut.kind = "gauge") =>
        /\ vizOut.min_bpm <= vizOut.value
        /\ vizOut.value <= vizOut.max_bpm

Recognised == {S("low"), S("medium"), S("high")}

\* C10 as stated: every frequency text create_instruments_chart carries
\* forward is one of low, medium, high.
C10_TextIsLowMediumHigh ==
    (vizFn = "instruments" /\ vPc = "done" /\ vizOut.kind = "bar") =>
        \A i \in 1..Len(vizOut.text) : vizOut.text[i] \in Recognised

\* C10 as amended: every bar has a number from 1 to 3; its text is the
\* value given for the instrument, unchanged, when that is low, medium or
\* high in any letter case (the number is then 1, 2 or 3) or a number from
\* 1 to 3 (the number is then that value), and is medium with the number 2
\* for every other value.
C10_TextKeptOrMedium ==
    (vizFn = "instruments" /\ vPc = "done" /\ vizOut.kind = "bar") =>
        \A i \in 1..Len(vizOut.y) :
            LET given == (CHOOSE it \in {vizIn.v[j] : j \in 1..Len(vizIn.v)} :
                             it.name = vizOut.y[i]).freq
                low == IF IsStr(given) THEN JStr(Lower(given.v)) ELSE given
                t == vizOut.text[i]
                x == vizOut.x[i]
            IN  /\ NumberOf(x) \in 1..3
                /\ IF low \in Recognised
                   THEN /\ t = given
                        /\ x = JNum(CASE low = S("low") -> 1
                                       [] low = S("medium") -> 2
                                       [] OTHER -> 3)
                   ELSE IF given \in {JNum(1), JNum(2), JNum(3), JBool(TRUE)}
                   THEN t = given /\ x = given
                   ELSE t = S("medium") /\ x = JNum(2)

\* A chart was drawn whose texts are High, as given, and the number 2.
C10_Witness ==
    /\ vizFn = "instruments"
    /\ vPc = "done"
    /\ vizOut.kind = "bar"
    /\ vizOut.text = <<S("High"), JNum(2)>>
    /\ vizOut.x = <<JNum(3), JNum(2)>>

\* The value given in the dict for the key drawn as bar i.
GivenCount(i) ==
    (CHOOSE it \in {vizIn.v[j] : j \in 1..Len(vizIn.v)} :
        it.name = vizOut.x[i]).freq
KeyChartDrawn == vizFn = "keys" /\ vPc = "done" /\ vizOut.kind = "bar"

\* C11 as stated: every count create_key_chart keeps is an integer (True
\* and False taken for 1 and 0) that is not negative.
C11_CountsNonNegativeIntegers ==
    KeyChartDrawn =>
        \A i \in 1..Len(vizOut.y) :
            /\ vizOut.y[i].t \in {"num", "bool"}
            /\ Tenths(vizOut.y[i]) >= 0

\* C11 as amended: a digit string becomes its integer value, a value that
\* is no number becomes 1, and a number stays as it is, negative or
\* fractional too.
C11_CountsConvertedOrKept ==
    KeyChartDrawn =>
        \A i \in 1..Len(vizOut.y) :
            LET g == GivenCount(i)
                y == vizOut.y[i]
            IN  /\ y.t \in {"num", "bool", "float"}
                /\ IF g.t = "str"
                   THEN IF g.v # <<>> /\ \A k \in 1..Len(g.v) : g.v[k] \in Digits
                        THEN y = JNum(SumSeq([k \in 1..Len(g.v) |->
                                         DigitVal[g.v[k]]
                                            * 10 ^ (Len(g.v) - k)]))
                        ELSE y = JNum(1)
                   ELSE IF g.t \in {"num", "bool", "float"} THEN y = g
                   ELSE y = JNum(1)

\* A chart was drawn from the digit string 07 and the number -3: the bars
\* are 7 and -3.
C11_Witness ==
    /\ KeyChartDrawn
    /\ vizIn = KeyDict(<<JNum(-3), JStr(<<"0", "7">>)>>)
    /\ vizOut.y = <<JNum(7), JNum(-3)>>

\* C12 as stated: no two records of the list get_playlist_tracks returns
\* have the same id, whatever pages the catalog serves.
C12_IdsUnique ==
    fPc = "done" =>
        Cardinality({all_tracks_data[i].id : i \in 1..Len(all_tracks_data)})
            = Len(all_tracks_data)

\* C12 as amended: the fetch adds no duplicate of its own.  At every point
\* the list holds one record per identified item served so far, rate
\* limited or not, so the ids of the list are distinct whenever the ids of
\* the playlist's items are.
C12_NoDuplicateAdded ==
    /\ Len(all_tracks_data) = Len(IdentifiedServed)
    /\ pattern # "dups" =>
          Cardinality({all_tracks_data[i].id : i \in 1..Len(all_tracks_data)})
              = Len(all_tracks_data)

\* A rate limited fetch of three pages returned 240 records.
C12_Witness ==
    /\ fPc = "done"
    /\ pattern = "ids"
    /\ n429 > 0
    /\ Len(all_tracks_data) = 240

\* C13: every fetch ends, by returning or by raising, whatever the catalog
\* answers.  The code breaks it: a catalog that answers 429 to every
\* request keeps the loop asking.
C13_FetchTerminates == <>(fPc \in {"done", "raised"})

ErrorStatuses == {"404", "500", "exception"}

\* C14: a request that fails with an error other than 429 is the last
\* request of the fetch, and the fetch raises: it does not go on and it
\* returns nothing, whatever it had collected.
C14_ErrorAborts ==
    \A i \in 1..Len(reqLog) :
        reqLog[i].status \in ErrorStatuses =>
            /\ i = Len(reqLog)
            /\ fPc = "raised"

\* The third request failed with status 500 after two pages were collected.
C14_Witness ==
    /\ fPc = "raised"
    /\ Len(reqLog) = 3
    /\ reqLog[3] = [offset |-> 2 * limit, status |-> "500"]
    /\ Len(all_tracks_data) = 2 * limit

\* ---- C15 ----
FallbackAnswered == sModel = FallbackModel /\ sLast # NoGeneration
AnalysisPrompts == {AnalysisPromptText(n) : n \in FallbackTrackCounts}
RecPrompts == {RecPromptText(q) : q \in ProfileTexts}
EmptyAnalysisPrompt == AnalysisPromptText(0)
FewLinePrompts == {p \in SetupPrompts : SampledFrom(p) < 3}
IsAnalysisPrompt(p) == p \in AnalysisPrompts
IsRecPrompt(p) == p \in RecPrompts
\* json.loads of the texts the FallbackModel returns.
FallbackTextsParsed ==
    {[text |-> o.out.text, parsed |-> JsonLoads(o.out.text)] :
        o \in FallbackOutcomes}
ParsedText(text) ==
    (CHOOSE r \in FallbackTextsParsed : r.text = text).parsed
AnalysisKeys ==
    {K("general_description"), K("bpm_range"), K("instruments"),
     K("key_distribution"), K("mood_description"), K("genre_analysis")}

\* C15 as stated: when no model accepts the probe, setup_gemini returns
\* the fallback object, whose generate_content never throws and answers
\* every prompt with one fixed JSON text, the same on every call.
C15_FixedTextForEveryPrompt ==
    /\ sPc = "held" /\ (\A i \in 1..Len(sProbes) : sProbes[i] \notin sEnv.accepts)
          => sModel = FallbackModel
    /\ FallbackAnswered => ~sLast.raises /\ ParsedText(sLast.text).ok
    /\ FallbackAnswered /\ sPrev # NoGeneration => sPrev.text = sLast.text

\* C15: with the API key set, setup_gemini returns the fallback object
\* when no probed model accepts; its generate_content never throws and
\* returns JSON text chosen by the prompt: an analysis object made up from
\* the track lines for an analysis prompt (the fixed analysis when it has
\* no track line; the same text on every call when it has fewer than three),
\* the fixed list of three recommendations for a recommendation prompt,
\* and the fixed status object for any other prompt.
C15_FallbackTextByPrompt ==
    /\ sPc = "raised" => ~sEnv.key
    /\ sPc = "held" /\ (\A i \in 1..Len(sProbes) : sProbes[i] \notin sEnv.accepts)
          => sModel = FallbackModel
    /\ FallbackAnswered =>
          /\ ~sLast.raises
          /\ ParsedText(sLast.text).ok
          /\ IsAnalysisPrompt(sLast.prompt) =>
                /\ IsObj(ParsedText(sLast.text).val)
                /\ DOMAIN ParsedText(sLast.text).val.v = AnalysisKeys
                /\ (sLast.prompt = EmptyAnalysisPrompt)
                      <=> (sLast.text = FixedAnalysisText)
          /\ IsRecPrompt(sLast.prompt) => sLast.text = FixedRecText
          /\ ~IsAnalysisPrompt(sLast.prompt) /\ ~IsRecPrompt(sLast.prompt)
                => sLast.text = StatusFallbackText
          /\ sPrev.prompt = sLast.prompt /\ sLast.prompt \in FewLinePrompts
                => sPrev.text = sLast.text

C15_Witness ==
    /\ FallbackAnswered
    /\ sSetups = 1
    /\ Len(sProbes) = Len(available_models) + 2
    /\ sPrev.prompt = AnalysisPromptText(3)
    /\ sLast.prompt = AnalysisPromptText(3)
    /\ sPrev.text # sLast.text

StartsWithPlaylistUrl(url) ==
    /\ Len(url) >= 3
    /\ SubSeq(url, 1, 2) = <<Host, PlaylistSlash>>
    /\ url[3] \in Alnum
AnalyzeHandled == aPc = "ready" /\ aEvent = "analyze"

\* C17 as stated: whenever the submitted URL does not match the playlist
\* URL pattern, the analyze handler shows the validation error and calls
\* neither the catalog API nor the language model.
C17_RejectedWithValidationError ==
    AnalyzeHandled /\ ~StartsWithPlaylistUrl(playlist_url)
        => aShown = {"validation"} /\ aLog = <<>>

\* C17: when the submitted URL does not match the playlist URL pattern the
\* analyze handler calls neither the catalog API nor the language model;
\* it shows the validation error when the URL is not empty, and nothing
\* when the input is empty.
C17_RejectedWithoutCalls ==
    AnalyzeHandled /\ ~StartsWithPlaylistUrl(playlist_url)
        => /\ aLog = <<>>
           /\ aShown = IF playlist_url = <<>> THEN {} ELSE {"validation"}

C17_Witness ==
    /\ AnalyzeHandled
    /\ playlist_url = <<"?", Host, PlaylistSlash, "a">>
    /\ aShown = {"validation"}
    /\ aLog = <<>>
    /\ aRun = 1
    /\ playlist_data = Stored(1, "tracks")

\* ---- C18 ----
HasPlaylistSegment(url) ==
    \E i \in 1..(Len(url) - 1) : url[i] = PlaylistSlash /\ url[i + 1] \in Alnum

\* C18: for every URL validate_spotify_url accepts, get_playlist_id_from_url
\* returns the characters of the id that follow playlist/, all of them and
\* nothing after them (a query string is cut off); for a string without a
\* playlist/ followed by an id character it raises the invalid-format
\* error.
C18_IdFollowsPlaylist ==
    aPc = "resolved" =>
        /\ aValid =>
              /\ ~aId.raises
              /\ aId.id # <<>>
              /\ \A j \in 1..Len(aId.id) : aId.id[j] \in Alnum
              /\ aId.id = SubSeq(playlist_url, 3, 2 + Len(aId.id))
              /\ \/ Len(playlist_url) = 2 + Len(aId.id)
                 \/ playlist_url[3 + Len(aId.id)] \notin Alnum
        /\ ~HasPlaylistSegment(playlist_url) => aId.raises
        /\ playlist_url = ValidUrl => aId.id = <<"a", "1">>

C18_Witness ==
    /\ aPc = "resolved"
    /\ playlist_url = ValidUrl
    /\ aValid
    /\ aId = [raises |-> FALSE, id |-> <<"a", "1">>]

\* ---- C19 ----
SessionResults ==
    <<playlist_data, playlist_details, playlist_analysis, recommendations>>

\* C19: after every handled button the four session results are all unset
\* or all made by the most recent analysis; after Clear Analysis they are
\* all unset.
C19_ResultsWhollyReplaced ==
    aPc = "ready" =>
        /\ \/ \A k \in 1..4 : SessionResults[k] = None
           \/ \A k \in 1..4 : /\ SessionResults[k] # None
                              /\ SessionResults[k].run = aRun
        /\ aEvent = "clear_analysis" =>
              \A k \in 1..4 : SessionResults[k] = None

C19_Witness ==
    /\ aPc = "ready"
    /\ aEvent = "analyze"
    /\ aRun = 2
    /\ playlist_data = Stored(2, "tracks")
    /\ playlist_details = Stored(2, "details")
    /\ playlist_analysis = Stored(2, "analysis")
    /\ recommendations = Stored(2, "empty list")

\* ---- C20 ----
\* The loop stands before attempt number `attempt` >= 1: the attempt
\* before it has failed.
AfterFailedAttempt == lPc = "attempt" /\ attempt >= 1
IsBackoff(w, k) == w.base = 2 ^ k /\ w.jitterMs \in 0..999

\* C20 as stated: at most 5 generation calls; after every failed attempt
\* k < 4 the wait is 2^k seconds plus a jitter below one second; no wait
\* follows the fifth attempt.
C20_WaitAfterEveryFailure ==
    /\ calls <= 5
    /\ AfterFailedAttempt => IsBackoff(lastWait, attempt - 1)
    /\ lastWait.base < 2 ^ 4

\* C20: at most 5 generation calls; after a failed attempt k < 4 that did
\* not fail with a JSON parsing error the wait is 2^k seconds plus a
\* jitter below one second; after a reply that failed to parse as JSON the
\* next attempt follows without a wait; no wait follows the fifth attempt.
C20_BackoffUnlessDecodeError ==
    /\ calls <= MaxRetries
    /\ lPc = "attempt" => calls = attempt
    /\ AfterFailedAttempt =>
          IF lastOutcome = "decode_error"
          THEN lastWait = NoWait
          ELSE IsBackoff(lastWait, attempt - 1)
    /\ lastWait.base < 2 ^ (MaxRetries - 1)

C20_Witness ==
    /\ lPc = "attempt"
    /\ attempt = 4
    /\ calls = 4
    /\ sawDecodeError
    /\ lastOutcome = "error"
    /\ lastWait = [base |-> 8, jitterMs |-> 999]

\* ---- the shapes of a reply ----
Positions(t, tok) == {i \in 1..Len(t) : t[i] = tok}
InBracketForm(t, open, close) ==
    StartsWith(Strip(t), open) /\ EndsWith(Strip(t), close)
FenceFree(t) == FencePositions(t) = {}
\* The text from the first opening to the last closing bracket.
BracketSlice(t, open, close) ==
    SubSeq(t, SetMin(Positions(t, open)), SetMax(Positions(t, close)))
OpenOf(fn) == IF fn = "analyze" THEN "{" ELSE "["
CloseOf(fn) == IF fn = "analyze" THEN "}" ELSE "]"
ReplyOutcome(fn, reply) ==
    IF fn = "analyze" THEN AnalyzeReplyOutcome(reply)
    ELSE RecReplyOutcome(reply)
\* The last call was answered with a reply, and the loop has dealt with it.
ReplyHandled == calls > 0 /\ lastOutcome \in {"ok", "decode_error", "error"}
ProseAroundBrackets ==
    /\ ReplyHandled
    /\ FenceFree(lastReply)
    /\ ~InBracketForm(lastReply, OpenOf(llmFn), CloseOf(llmFn))
    /\ Positions(lastReply, OpenOf(llmFn)) # {}
    /\ Positions(lastReply, CloseOf(llmFn)) # {}

\* C21: a reply that is not in the expected bracket form and holds no code
\* fence, but holds an opening and a closing bracket of the expected kind,
\* is handled as the slice from its first opening to its last closing
\* bracket is: the attempt ends as that slice would end it, and a slice
\* that parses is returned from that attempt.  The code breaks it: neither
\* retry loop slices, the whole text goes to json.loads.
C21_BracketSliceParsed ==
    ProseAroundBrackets =>
        LET out == ReplyOutcome(llmFn,
                       BracketSlice(lastReply, OpenOf(llmFn), CloseOf(llmFn)))
        IN  /\ lastOutcome = out.kind
            /\ out.kind = "ok" =>
                  /\ lPc = "done"
                  /\ resultKind = "parsed"
                  /\ result = out.val

\* The reply holds one code block: an opening and a closing fence and no
\* other, and it is not in bracket form already.
WrappedInFence ==
    /\ ReplyHandled
    /\ Cardinality(FencePositions(lastReply)) = 2
    /\ ~InBracketForm(lastReply, OpenOf(llmFn), CloseOf(llmFn))
\* What lies between the two fences, after the json tag of the first.
BetweenFences(t) ==
    LET a == SetMin(FencePositions(t))
        b == SetMax(FencePositions(t))
        from == IF a + 1 <= Len(t) /\ t[a + 1] = "json" THEN a + 2 ELSE a + 1
    IN  SubSeq(t, from, b - 1)
LastExtracted == ExtractedText(lastReply, OpenOf(llmFn), CloseOf(llmFn))

\* C22 as stated: for a reply wrapped in a code fence, tagged json or not,
\* the text extracted before the quotes are repaired is the text between
\* the fences, token for token.
C22_ExtractedIsBetweenFences ==
    WrappedInFence => LastExtracted = BetweenFences(lastReply)

\* C22: for a reply that holds one code block, tagged json or not, the
\* text extracted before the quotes are repaired is the text between the
\* fences without the white space at its two ends, token for token.
C22_ExtractedIsStrippedBetweenFences ==
    WrappedInFence => LastExtracted = Strip(BetweenFences(lastReply))

\* The fenced reply of the scenario was handled: line feeds lie between
\* the fences and the object, and single quotes are still in the text.
C22_Witness ==
    /\ WrappedInFence
    /\ llmFn = "analyze"
    /\ JsonFencePositions(lastReply) # {}
    /\ BetweenFences(lastReply) # Strip(BetweenFences(lastReply))
    /\ Positions(LastExtracted, SQ) # {}
    /\ lastOutcome = "ok"

\* ---- json.dumps of a parsed value ----
\* The members of a set in some fixed order.
RECURSIVE SetSeq(_)
SetSeq(set) ==
    IF set = {} THEN <<>>
    ELSE LET x == CHOOSE y \in set : TRUE
         IN  <<x>> \o SetSeq(set \ {x})
\* The text of a value, with ", " and ": " as separators.  A parsed string
\* holds no double quote, so none is escaped.
RECURSIVE JsonDumps(_)
JsonDumps(x) ==
    CASE x.t = "null" -> <<"null">>
      [] x.t = "bool" -> IF x.v THEN <<"true">> ELSE <<"false">>
      [] x.t = "num" -> TInt(x.v)
      [] x.t = "str" -> <<DQ>> \o x.v \o <<DQ>>
      [] x.t = "arr" -> TArr([i \in 1..Len(x.v) |-> JsonDumps(x.v[i])])
      [] x.t = "obj" ->
            LET ks == SetSeq(DOMAIN x.v)
            IN  TObj([i \in 1..Len(ks) |->
                        <<DQ>> \o ks[i] \o <<DQ, ":", " ">>
                            \o JsonDumps(x.v[ks[i]])])

\* The reply is valid JSON as it stands, and in bracket form.
PlainParse == JsonLoads(Strip(lastReply))
ValidInBracketForm ==
    /\ ReplyHandled
    /\ InBracketForm(lastReply, OpenOf(llmFn), CloseOf(llmFn))
    /\ PlainParse.ok
HasAll(o, fields) == IsObj(o) /\ \A i \in 1..Len(fields) : HasKey(o, fields[i])
\* No key that the validation fills is missing from the parsed reply.
EveryRequiredKey(x) ==
    IF llmFn = "analyze"
    THEN /\ HasAll(x, RequiredFields)
         /\ IsObj(x.v[K("bpm_range")]) => HasAll(x.v[K("bpm_range")], BpmFields)
    ELSE /\ IsArr(x)
         /\ x.v # <<>>
         /\ \A i \in 1..Len(x.v) : HasAll(x.v[i], RecFields)

MissingCommas(t) == {i \in 1..(Len(t) - 1) : t[i] = "}" /\ t[i + 1] = "{"}
\* The recommendation of a reply that names a title only.
TitleOnly(w) ==
    ObjOf(<<<<"title", S(w)>>,
            <<"artist", S("Not specified")>>,
            <<"reasoning", S("Not specified")>>,
            <<"attributes", JObj(EmptyMap)>>,
            <<"spotify_url", S("Not specified")>>>>)

\* C24: in get_song_recommendations the text handed to json.loads holds no
\* closing brace followed at once by an opening brace, and where the reply
\* had such a pair a comma stands between the two; the reply
\* [{"title": "A"}{"title": "B"}] is accepted in the attempt it arrives in
\* and gives the list of two recommendations, each with artist, reasoning
\* and spotify_url "Not specified" and attributes an empty mapping.
C24_MissingCommaRepaired ==
    (llmFn = "recommend" /\ ReplyHandled) =>
        /\ MissingCommas(RecText(lastReply)) = {}
        /\ \A i \in MissingCommas(ExtractedText(lastReply, "[", "]")) :
              \E j \in 1..Len(RecText(lastReply)) - 2 :
                 /\ RecText(lastReply)[j] = "}"
                 /\ RecText(lastReply)[j + 1] = ","
                 /\ RecText(lastReply)[j + 2] = "{"
        /\ lastReply = MissingCommaExample =>
              /\ lastOutcome = "ok"
              /\ lPc = "done"
              /\ resultKind = "parsed"
              /\ result = JArr(<<TitleOnly("A"), TitleOnly("B")>>)

\* The reply of the scenario came as the first reply and was returned as a
\* list of two.
C24_Witness ==
    /\ RecommendReturned
    /\ lastReply = MissingCommaExample
    /\ MissingCommas(lastReply) # {}
    /\ calls = 1
    /\ attempt = 0
    /\ Len(result.v) = 2

\* ---- C25 ----
CallOrder == <<"get_playlist_details", "get_playlist_tracks",
               "analyze_playlist", "get_song_recommendations">>
Called(f) == \E i \in 1..Len(aLog) : aLog[i] = f
\* The requests the script is waiting for.
InFlight ==
    {f \in {"get_playlist_details", "get_playlist_tracks",
            "analyze_playlist", "get_song_recommendations"} :
        \/ f = "get_playlist_details" /\ aPc = "in_details"
        \/ f = "get_playlist_tracks" /\ aPc = "in_tracks"
        \/ f = "analyze_playlist" /\ aPc = "in_analyze"
        \/ f = "get_song_recommendations" /\ aPc = "in_recommend"}
C25_Order ==
    /\ aLog = SubSeq(CallOrder, 1, Len(aLog))
    /\ Cardinality(InFlight) <= 1
    /\ \A f \in InFlight : aLog # <<>> /\ aLog[Len(aLog)] = f
    /\ Called("analyze_playlist") =>
          /\ playlist_data = Stored(aRun, "tracks")
          /\ playlist_details = Stored(aRun, "details")
    /\ Called("get_song_recommendations") =>
          playlist_analysis = Stored(aRun, "analysis")
    /\ (aEvent = "analyze" /\ aValid /\ processing_error =
              "Unable to fetch tracks from this playlist") =>
          /\ aLog = SubSeq(CallOrder, 1, 2)
          /\ InFlight = {}
          /\ playlist_data = None
C25_Steps ==
    /\ aPc' = "in_tracks" => aPc = "in_details"
    /\ aPc' = "in_analyze" =>
          /\ aPc = "in_tracks"
          /\ playlist_data' = Stored(aRun, "tracks")
    /\ aPc' = "in_recommend" =>
          /\ aPc = "in_analyze"
          /\ playlist_analysis' # None
    /\ (aPc = "in_tracks" /\ aPc' = "ready" /\ processing_error' # NoError) =>
          aLog' = SubSeq(CallOrder, 1, 2)

\* C25: within one run of the analyze handler the calls are made one after
\* the other in the order get_playlist_details, get_playlist_tracks,
\* analyze_playlist, get_song_recommendations, and at most one of them is
\* waited for at a time.  analyze_playlist is called only when
\* get_playlist_tracks has returned a list that is not empty (which is
\* stored); an empty list stores the private-or-empty message and no model
\* function is called; get_song_recommendations is called only when
\* analyze_playlist has returned.
C25_CallsInSequence == []C25_Order /\ [][C25_Steps]_vars

\* The second run has got as far as waiting for the recommendations.
C25_Witness ==
    /\ aPc = "in_recommend"
    /\ aRun = 2
    /\ aLog = CallOrder
    /\ InFlight = {"get_song_recommendations"}
    /\ playlist_analysis = Stored(2, "analysis")
    /\ recommendations = None

\* ---- C26 ----
\* The song list of the prompt (lines 355-356) for the sampled tracks:
\* line k is the number k and the title, artist and date of track
\* sample[k].
SongList(sample) ==
    LET F[k \in 0..Len(sample)] ==
            IF k = 0 THEN <<>>
            ELSE (IF k = 1 THEN <<>> ELSE F[k - 1] \o <<"\n">>)
                 \o TNat(k) \o <<DotSpace>> \o TrackName(sample[k])
    IN  F[Len(sample)]
FirstTracks(n) == [i \in 1..(IF n < SampleSize THEN n ELSE SampleSize) |-> i]
PromptBuilt == llmFn = "analyze" /\ prompt.fn = "analyze"

\* C26 as stated: the song list of the analysis prompt is fixed by the
\* track list: it lists the first 20 tracks in playlist order (all of them
\* when there are no more than 20), so two calls on the same list build
\* the same list of songs.
C26_FirstTracksInOrder ==
    PromptBuilt =>
        /\ prompt.body = FirstTracks(tracksIn)
        /\ SongList(prompt.body) = track_info(Len(FirstTracks(tracksIn)))

\* C26: for a list of no more than 20 tracks the song list of the analysis
\* prompt is fixed by the track list: all tracks in playlist order, line k
\* being k and title, artist and date of track k.  For a longer list it
\* names 20 tracks of the list, no track twice, in an order that need not
\* be the playlist's.
C26_InOrderUpToSampleSize ==
    PromptBuilt =>
        /\ tracksIn <= SampleSize =>
              /\ prompt.body = FirstTracks(tracksIn)
              /\ SongList(prompt.body) = track_info(tracksIn)
        /\ tracksIn > SampleSize =>
              /\ Len(prompt.body) = SampleSize
              /\ \A i \in 1..SampleSize : prompt.body[i] \in 1..tracksIn
              /\ \A i, j \in 1..SampleSize :
                    prompt.body[i] = prompt.body[j] => i = j

\* Of 21 tracks the sample that starts with the last one went into the
\* prompt.
C26_Witness ==
    /\ PromptBuilt
    /\ lPc = "attempt"
    /\ tracksIn = SampleSize + 1
    /\ prompt.body[1] = tracksIn
    /\ prompt.body # FirstTracks(tracksIn)

\* ---- C27 ----
\* The retry loop or the code before it has failed, and the except block
\* of get_song_recommendations has run.
RecommendGaveUp ==
    /\ llmFn = "recommend"
    /\ lPc \in {"done", "raised"}
    /\ resultKind # "parsed"

\* C27: get_song_recommendations never raises to its caller for a record
\* analyze_playlist can return: when the prompt construction or the retry
\* loop fails, its except block returns one of the three fallback lists.
\* The code breaks it: the except block reads the description and the
\* instruments of the record again and raises on the values the prompt
\* construction failed on.
C27_FallbackListNeverRaises ==
    /\ llmFn = "recommend" => lPc # "raised"
    /\ RecommendGaveUp =>
          /\ resultKind = "fallback"
          /\ result \in {BollywoodRecs, ElectronicRecs, DefaultRecs}

\* ---- C28 ----
\* The fallback of the function that was called.
FallbackOf(fn, a) == IF fn = "analyze" THEN FallbackAnalysis ELSE FallbackRecs(a)
OtherFailures == {"error", "generate_error"}

\* C28: in both retry loops, after a reply that failed to parse as JSON on
\* an attempt that is not the last the next attempt follows with no wait;
\* after any other failure (the generation call fails, the parsed value
\* has the wrong top-level type, the list holds no recommendation) on such
\* an attempt the loop waits 2^attempt seconds plus a jitter below one
\* second; a failure of either kind on the last attempt ends the loop and
\* the fallback is returned.  The code breaks the last part: the except
\* block of get_song_recommendations may raise instead of returning.
C28_RetryTimingAndFallback ==
    /\ (AfterFailedAttempt /\ lastOutcome = "decode_error") =>
          /\ lastWait = NoWait
          /\ calls = attempt
    /\ (AfterFailedAttempt /\ lastOutcome \in OtherFailures) =>
          /\ lastWait.base = BackoffBase(attempt - 1)
          /\ lastWait.jitterMs \in 0..999
          /\ calls = attempt
    /\ (calls = MaxRetries /\ lastOutcome \in OtherFailures \cup {"decode_error"}) =>
          /\ lPc = "done"
          /\ resultKind = "fallback"
          /\ result = FallbackOf(llmFn, analysisIn)

\* ---- the release dates analyze_playlist reads (lines 321-356) ----
\* track.get(key, default) of a track record
GetField(track, key, default) ==
    IF key \in DOMAIN track THEN track[key] ELSE default
\* Lines 324-331: the date has four characters or more, int() of the
\* first four does not raise, and the year is from 1900 to 2100.
HasYear(track) ==
    LET date == GetField(track, "release_date", <<>>)
    IN  /\ Len(date) >= 4
        /\ \A i \in 1..4 : date[i] \in Digits
        /\ DigitsValue(SubSeq(date, 1, 4)) \in 1900..2100
release_years(tracks) ==
    LET dated == SelectSeq(tracks, HasYear)
    IN  [i \in 1..Len(dated) |->
            DigitsValue(SubSeq(dated[i].release_date, 1, 4))]
\* Lines 334-338: the number of years of each decade.
decade_distribution(years) ==
    [dec \in {(years[i] \div 10) * 10 : i \in 1..Len(years)} |->
        Cardinality({i \in 1..Len(years) : (years[i] \div 10) * 10 = dec})]
\* The decades in the order the dict got them, and the first with the
\* highest count (line 344).
RECURSIVE DecadeOrder(_)
DecadeOrder(years) ==
    IF years = <<>> THEN <<>>
    ELSE LET before == DecadeOrder(SubSeq(years, 1, Len(years) - 1))
             dec == (years[Len(years)] \div 10) * 10
         IN  IF \E i \in 1..Len(before) : before[i] = dec THEN before
             ELSE Append(before, dec)
primary_decade(years) ==
    LET dist == decade_distribution(years)
        order == DecadeOrder(years)
        best == SetMin({i \in 1..Len(order) :
                          \A j \in 1..Len(order) :
                             dist[order[j]] <= dist[order[i]]})
    IN  order[best]
\* percentage:.1f, in tenths, ties to the even digit.
PercentTenths(count, total) ==
    LET q == (1000 * count) \div total
        r == (1000 * count) % total
    IN  IF 2 * r > total \/ (2 * r = total /\ q % 2 = 1) THEN q + 1 ELSE q
\* decade_info (lines 341-350): empty when no year was collected.
DecadeInfoOf(tracks) ==
    LET years == release_years(tracks)
        dist == decade_distribution(years)
        order == DecadeOrder(years)
        prim == primary_decade(years)
        pct == PercentTenths(dist[prim], Len(years))
    IN  IF years = <<>> THEN <<>>
        ELSE <<"\n", "\n", "NOTE: This playlist contains ">>
             \o TNat(dist[prim]) \o <<" tracks (">>
             \o TNat(pct \div 10) \o <<".">> \o TNat(pct % 10)
             \o <<"%) from the ">> \o TNat(prim) \o <<"s era.", "\n",
                  "Decade distribution: ">>
             \o TObj([i \in 1..Len(order) |->
                        TNat(order[i]) \o <<":", " ">>
                            \o TNat(dist[order[i]])])
\* The date in the song line of a track (line 355).
DateShown(track) == GetField(track, "release_date", <<"Unknown date">>)

\* ---- C29 ----
TrackKeys == {"id", "name", "artist", "album", "duration_ms", "popularity"}
DatedTrack == [id |-> 1, release_date |-> <<"1", "9", "7", "7", "-", "0", "5">>]

\* C29: every record of the list get_playlist_tracks builds has the keys
\* id, name, artist, album, duration_ms and popularity and no other, so
\* none has release_date; for that list analyze_playlist collects no
\* release year, the decade distribution is empty, the prompt gets no
\* decade statistics and every song line shows Unknown date.
C29_NoReleaseDate ==
    /\ \A i \in 1..Len(all_tracks_data) :
          /\ DOMAIN all_tracks_data[i] = TrackKeys
          /\ DateShown(all_tracks_data[i]) = <<"Unknown date">>
    /\ release_years(all_tracks_data) = <<>>
    /\ DOMAIN decade_distribution(release_years(all_tracks_data)) = {}
    /\ DecadeInfoOf(all_tracks_data) = <<>>

\* A fetch of two pages has returned its records; a record with a release
\* date would have given a year and decade statistics.
C29_Witness ==
    /\ fPc = "done"
    /\ Len(all_tracks_data) > limit
    /\ release_years(all_tracks_data) = <<>>
    /\ release_years(<<DatedTrack>>) = <<1977>>
    /\ DateShown(DatedTrack) # <<"Unknown date">>
    /\ DecadeInfoOf(<<DatedTrack, DatedTrack>>) # <<>>

\* ---- C30 ----
\* C30: in get_song_recommendations the text handed to json.loads starts
\* with [: a repaired reply that does not is put between [ and ], any
\* other is left as it is.  So the reply {"title": "A"} is returned as the
\* list of the one recommendation, and two objects with nothing around
\* them as the list of the two, the keys they lack set to the
\* placeholders; and whatever the function returns is a list.
C30_WrappedIntoList ==
    /\ (llmFn = "recommend" /\ ReplyHandled) =>
          /\ StartsWith(RecText(lastReply), "[")
          /\ RecText(lastReply) =
                IF StartsWith(RepairedText(lastReply), "[")
                THEN RepairedText(lastReply)
                ELSE <<"[">> \o RepairedText(lastReply) \o <<"]">>
          /\ lastReply = TitleA =>
                /\ lastOutcome = "ok"
                /\ result = JArr(<<TitleOnly("A")>>)
          /\ lastReply = TitleA \o TitleB =>
                /\ lastOutcome = "ok"
                /\ result = JArr(<<TitleOnly("A"), TitleOnly("B")>>)
    /\ RecommendReturned => IsArr(result)

\* A reply that is one object was returned as a list of one element.
C30_Witness ==
    /\ RecommendReturned
    /\ resultKind = "parsed"
    /\ lastReply = TitleA
    /\ ~StartsWith(RepairedText(lastReply), "[")
    /\ result = JArr(<<TitleOnly("A")>>)

====
